---- MODULE Spec2Model ----
(***************************************************************************)
(* Postman Observer: the detection -> aggregation -> verification ->       *)
(* suppression pipeline (scanner, verifier, duplicate detector, monitor).  *)
(*                                                                         *)
(* Strings are sequences of atoms.  Content that the regular expressions   *)
(* or the redactor look into (names, header values, credentials, keywords, *)
(* ids) is written one character per atom; fixed labels that no modelled   *)
(* pattern can match (JSON field names, location suffixes, secret-type     *)
(* names) are one atom each.  Concatenation (fmt.Sprintf, +) is \o.        *)
(* Time is counted in days.                                                *)
(***************************************************************************)
EXTENDS Integers, Sequences, FiniteSets, TLC

VARIABLES
    now,            \* wall clock (time.Now()), in days
    seenAlerts,     \* Monitor.seenAlerts: alertKey -> last alerted at
    currentUserID,  \* Monitor.currentUserID ("" when unknown)
    config,         \* Monitor.config and Monitor.dryRun
    pc,             \* position of the monitor: start / idle / search / col / notify /
                    \* returned; of a function applied alone: call / done
    ki,             \* index of the keyword being searched (outer loop)
    collections,    \* result of the current keyword's search
    ci,             \* index of the next collection of that result (inner loop)
    allAlerts,      \* the run's batch
    lastDoc,        \* what the last loop iteration decided, on which key, and the
                    \* requests its probes issued
    sent,           \* calls of SendAlert in this run
    reports,        \* times the findings reports were generated in this run
    sweeps,         \* calls of cleanupSeenAlerts in this run
    ret,            \* what the last finished run returned
    arg,            \* input of a function applied alone
    res             \* its result

vars == <<now, seenAlerts, currentUserID, config, pc, ki, collections, ci,
          allAlerts, lastDoc, sent, reports, sweeps, ret, arg, res>>

None == [none |-> TRUE]

(***************************************************************************)
(* Characters and string helpers                                           *)
(***************************************************************************)
Digit == {"0","1","2","3","4","5","6","7","8","9"}
LowerAlpha == {"a","b","c","d","e","f","g","h","i","j","k","l","m",
               "n","o","p","q","r","s","t","u","v","w","x","y","z"}
UpperAlpha == {"A","B","C","D","E","F","G","H","I","J","K","L","M",
               "N","O","P","Q","R","S","T","U","V","W","X","Y","Z"}
Alnum == Digit \cup LowerAlpha \cup UpperAlpha
Space == {" "}

LowerOf == [c \in UpperAlpha |->
    CASE c = "A" -> "a" [] c = "B" -> "b" [] c = "C" -> "c" [] c = "D" -> "d"
      [] c = "E" -> "e" [] c = "F" -> "f" [] c = "G" -> "g" [] c = "H" -> "h"
      [] c = "I" -> "i" [] c = "J" -> "j" [] c = "K" -> "k" [] c = "L" -> "l"
      [] c = "M" -> "m" [] c = "N" -> "n" [] c = "O" -> "o" [] c = "P" -> "p"
      [] c = "Q" -> "q" [] c = "R" -> "r" [] c = "S" -> "s" [] c = "T" -> "t"
      [] c = "U" -> "u" [] c = "V" -> "v" [] c = "W" -> "w" [] c = "X" -> "x"
      [] c = "Y" -> "y" [] c = "Z" -> "z"]

\* strings.ToLower
ToLower(s) == [i \in 1..Len(s) |-> IF s[i] \in UpperAlpha THEN LowerOf[s[i]] ELSE s[i]]

\* strings.Contains
Contains(s, sub) ==
    \E i \in 1..(Len(s) + 1) :
        /\ i + Len(sub) - 1 <= Len(s)
        /\ SubSeq(s, i, i + Len(sub) - 1) = sub

\* strings.Repeat
Repeat(c, n) == [i \in 1..n |-> c]

min(a, b) == IF a < b THEN a ELSE b

(***************************************************************************)
(* Redactor (scanner/secrets.go)                                           *)
(***************************************************************************)
RedactAllMax == 8
RedactShortBelow == 12
RedactVisible == 4
RedactVisibleShort == 2
RedactMaskMax == 20

\* The redaction without the cap on the masked middle
redactSecretUncapped(secret) ==
    IF Len(secret) <= RedactAllMax
    THEN <<"*", "*", "*", "*">>
    ELSE LET visible == IF Len(secret) < RedactShortBelow
                        THEN RedactVisibleShort ELSE RedactVisible
             start == SubSeq(secret, 1, visible)
             end == SubSeq(secret, Len(secret) - visible + 1, Len(secret))
             middle == Repeat("*", Len(secret) - 2 * visible)
         IN start \o middle \o end

redactSecret(secret) ==
    IF Len(secret) <= RedactAllMax
    THEN <<"*", "*", "*", "*">>
    ELSE LET visible == IF Len(secret) < RedactShortBelow
                        THEN RedactVisibleShort ELSE RedactVisible
             start == SubSeq(secret, 1, visible)
             end == SubSeq(secret, Len(secret) - visible + 1, Len(secret))
             middle == Repeat("*", min(RedactMaskMax, Len(secret) - 2 * visible))
         IN start \o middle \o end

(***************************************************************************)
(* Pattern catalog (scanner/secrets.go, initializePatterns).  A regular    *)
(* expression is a sequence of parts, each a character class repeated      *)
(* between lo and hi times (open: no upper limit), matched greedily.  The  *)
(* catalog holds, in the source's order, the rules whose expressions have  *)
(* this shape and that the model's documents can trigger.                  *)
(***************************************************************************)
Lit(s) == [i \in 1..Len(s) |-> [cls |-> {s[i]}, lo |-> 1, hi |-> 1, open |-> FALSE]]
LitNoCase(s) == [i \in 1..Len(s) |->
    [cls |-> {s[i]} \cup {c \in UpperAlpha : LowerOf[c] = s[i]},
     lo |-> 1, hi |-> 1, open |-> FALSE]]
Run(cls, lo, hi) == <<[cls |-> cls, lo |-> lo, hi |-> hi, open |-> FALSE]>>
AtLeast(cls, lo) == <<[cls |-> cls, lo |-> lo, hi |-> lo, open |-> TRUE]>>

\* `ghp_[a-zA-Z0-9]{36}`
ReGitHubOAuth == Lit(<<"g","h","p","_">>) \o Run(Alnum, 36, 36)
\* `(?i)bearer[\s]+([a-zA-Z0-9_\-\.=]+)`
ReBearer == LitNoCase(<<"b","e","a","r","e","r">>) \o AtLeast(Space, 1)
            \o AtLeast(Alnum \cup {"_", "-", ".", "="}, 1)
\* `xox[baprs]-[0-9a-zA-Z]{10,48}`
ReSlack == Lit(<<"x","o","x">>) \o Run({"b","a","p","r","s"}, 1, 1) \o Lit(<<"-">>)
           \o Run(Alnum, 10, 48)
\* `sk_live_[0-9a-zA-Z]{24,}`
ReStripe == Lit(<<"s","k","_","l","i","v","e","_">>) \o AtLeast(Alnum, 24)
\* `SK[a-z0-9]{32}`
ReTwilio == Lit(<<"S","K">>) \o Run(LowerAlpha \cup Digit, 32, 32)

patterns == <<
    [Name |-> <<"GitHub OAuth">>, Pattern |-> ReGitHubOAuth,
     Description |-> <<"GitHub OAuth Token">>],
    [Name |-> <<"Bearer Token">>, Pattern |-> ReBearer,
     Description |-> <<"Bearer Authentication Token">>],
    [Name |-> <<"Slack Token">>, Pattern |-> ReSlack,
     Description |-> <<"Slack Token">>],
    [Name |-> <<"Stripe Secret Key">>, Pattern |-> ReStripe,
     Description |-> <<"Stripe Secret Key">>],
    [Name |-> <<"Twilio API Key">>, Pattern |-> ReTwilio,
     Description |-> <<"Twilio API Key">> ] >>

\* Smallest element of a non-empty set of integers
MinOf(S) == CHOOSE x \in S : \A y \in S : x <= y

\* Number of consecutive atoms of data from position i that lie in cls, at most cap
\* of them unless open.
RunLen(cls, data, i, cap, open) ==
    LET last == IF open THEN Len(data) ELSE min(Len(data), i + cap - 1)
        stop == {j \in i..last : data[j] \notin cls}
    IN IF stop = {} THEN last + 1 - i ELSE MinOf(stop) - i

\* Position just after the match of parts p.. of re at position i of data; 0 when
\* the expression does not match there.
RECURSIVE MatchEnd(_, _, _, _)
MatchEnd(re, p, data, i) ==
    IF p > Len(re)
    THEN i
    ELSE LET n == RunLen(re[p].cls, data, i, re[p].hi, re[p].open)
         IN IF n < re[p].lo THEN 0 ELSE MatchEnd(re, p + 1, data, i + n)

\* regexp.FindAllString(data, -1): the leftmost non-overlapping matches, in order.
RECURSIVE FindAllFrom(_, _, _)
FindAllFrom(re, data, i) ==
    LET starts == {j \in i..Len(data) : MatchEnd(re, 1, data, j) # 0}
    IN IF starts = {}
       THEN <<>>
       ELSE LET j == MinOf(starts)
                e == MatchEnd(re, 1, data, j)
            IN <<SubSeq(data, j, e - 1)>> \o FindAllFrom(re, data, e)

FindAllString(re, data) == FindAllFrom(re, data, 1)

(***************************************************************************)
(* Matcher (scanner/secrets.go)                                            *)
(***************************************************************************)
\* SecretMatch for one match of one pattern at one location
NewSecretMatch(pattern, match, location) ==
    [Type |-> pattern.Name,
     Value |-> redactSecret(match),
     RawValue |-> match,
     Location |-> location,
     FullPath |-> location,
     Description |-> pattern.Description,
     Verification |-> None]

\* Concatenation of the sequences seqs[lo..hi], and of all of seqs
RECURSIVE FlattenRange(_, _, _)
FlattenRange(seqs, lo, hi) ==
    IF lo > hi THEN <<>>
    ELSE IF lo = hi THEN seqs[lo]
    ELSE LET mid == (lo + hi) \div 2
         IN FlattenRange(seqs, lo, mid) \o FlattenRange(seqs, mid + 1, hi)

Flatten(seqs) == FlattenRange(seqs, 1, Len(seqs))

scanData(data, location) ==
    Flatten([p \in 1..Len(patterns) |->
        LET found == FindAllString(patterns[p].Pattern, data)
        IN [m \in 1..Len(found) |-> NewSecretMatch(patterns[p], found[m], location)]])

\* fmt.Sprintf("%s:%s:%s", match.Type, match.Value, match.Location)
DedupKey(match) == match.Type \o <<":">> \o match.Value \o <<":">> \o match.Location

RECURSIVE DedupFrom(_, _, _)
DedupFrom(matches, i, seen) ==
    IF i > Len(matches)
    THEN <<>>
    ELSE LET key == DedupKey(matches[i])
         IN IF key \in seen
            THEN DedupFrom(matches, i + 1, seen)
            ELSE <<matches[i]>> \o DedupFrom(matches, i + 1, seen \cup {key})

deduplicateMatches(matches) == DedupFrom(matches, 1, {})

(***************************************************************************)
(* Documents: JSON values as decoded by encoding/json into interface{}.    *)
(* Str: string, Arr: []interface{}, Obj: map[string]interface{} (its       *)
(* entries listed in key order, the order json.Marshal and fmt print a map *)
(* in), Nil: JSON null or a missing map entry.                             *)
(***************************************************************************)
Str(s) == [t |-> "string", v |-> s]
Arr(a) == [t |-> "array", v |-> a]
Obj(kv) == [t |-> "object", v |-> kv]
Nil == [t |-> "nil", v |-> <<>>]

IsStr(x) == x.t = "string"
IsArr(x) == x.t = "array"
IsObj(x) == x.t = "object"

\* m[key] and its presence ("comma ok")
Has(m, key) == \E i \in 1..Len(m.v) : m.v[i][1] = key
Get(m, key) ==
    IF Has(m, key)
    THEN m.v[CHOOSE i \in 1..Len(m.v) : m.v[i][1] = key][2]
    ELSE Nil

\* strconv.Itoa, as used by %d
RECURSIVE Itoa(_)
Itoa(n) ==
    LET d == <<"0","1","2","3","4","5","6","7","8","9">>
    IN IF n < 10 THEN <<d[n + 1]>> ELSE Itoa(n \div 10) \o <<d[(n % 10) + 1]>>

\* Joins the strings of a sequence with a separator
RECURSIVE Join(_, _)
Join(strs, sep) ==
    IF strs = <<>> THEN <<>>
    ELSE IF Len(strs) = 1 THEN strs[1]
    ELSE strs[1] \o sep \o Join(Tail(strs), sep)

\* encoding/json string escaping (HTML-safe, the default of json.Marshal)
JSONEscape(s) ==
    Flatten([i \in 1..Len(s) |->
        CASE s[i] = "\"" -> <<"\\", "\"">>
          [] s[i] = "\\" -> <<"\\", "\\">>
          [] s[i] = "<" -> <<"\\", "u", "0", "0", "3", "c">>
          [] s[i] = ">" -> <<"\\", "u", "0", "0", "3", "e">>
          [] s[i] = "&" -> <<"\\", "u", "0", "0", "2", "6">>
          [] OTHER -> <<s[i]>>])

JSONString(s) == <<"\"">> \o JSONEscape(s) \o <<"\"">>

\* json.Marshal
RECURSIVE Marshal(_)
Marshal(x) ==
    CASE IsStr(x) -> JSONString(x.v)
      [] IsArr(x) -> <<"[">> \o Join([i \in 1..Len(x.v) |-> Marshal(x.v[i])], <<",">>) \o <<"]">>
      [] IsObj(x) -> <<"{">> \o Join([i \in 1..Len(x.v) |->
                         JSONString(x.v[i][1]) \o <<":">> \o Marshal(x.v[i][2])], <<",">>)
                     \o <<"}">>
      [] OTHER -> <<"null">>

\* fmt.Sprintf("%v", x)
RECURSIVE FmtV(_)
FmtV(x) ==
    CASE IsStr(x) -> x.v
      [] IsArr(x) -> <<"[">> \o Join([i \in 1..Len(x.v) |-> FmtV(x.v[i])], <<" ">>) \o <<"]">>
      [] IsObj(x) -> <<"map[">> \o Join([i \in 1..Len(x.v) |->
                         x.v[i][1] \o <<":">> \o FmtV(x.v[i][2])], <<" ">>)
                     \o <<"]">>
      [] OTHER -> <<"<nil>">>

(***************************************************************************)
(* Document traversal (scanner/secrets.go)                                 *)
(***************************************************************************)
scanRequest(request, path) ==
    LET urlM == IF Has(request, <<"url">>)
                THEN scanData(FmtV(Get(request, <<"url">>)), path \o <<" > URL">>)
                ELSE <<>>
        headers == Get(request, <<"header">>)
        headerM == IF IsArr(headers)
                   THEN Flatten([h \in 1..Len(headers.v) |->
                            IF IsObj(headers.v[h])
                            THEN scanData(FmtV(Get(headers.v[h], <<"key">>)) \o <<":", " ">>
                                          \o FmtV(Get(headers.v[h], <<"value">>)),
                                          path \o <<" > Header">>)
                            ELSE <<>>])
                   ELSE <<>>
        body == Get(request, <<"body">>)
        bodyM == IF IsObj(body) THEN scanData(FmtV(body), path \o <<" > Body">>) ELSE <<>>
        auth == Get(request, <<"auth">>)
        authM == IF IsObj(auth) THEN scanData(FmtV(auth), path \o <<" > Auth">>) ELSE <<>>
    IN urlM \o headerM \o bodyM \o authM

RECURSIVE scanItems(_, _)
scanItems(items, path) ==
    Flatten([i \in 1..Len(items) |->
        IF ~IsObj(items[i])
        THEN <<>>
        ELSE LET itemMap == items[i]
                 itemName == IF IsStr(Get(itemMap, <<"name">>))
                             THEN Get(itemMap, <<"name">>).v
                             ELSE <<"Item ">> \o Itoa(i - 1)
                 currentPath == IF path # <<>> THEN path \o <<" > ">> \o itemName
                                ELSE itemName
                 nested == IF IsArr(Get(itemMap, <<"item">>))
                           THEN scanItems(Get(itemMap, <<"item">>).v, currentPath)
                           ELSE <<>>
                 req == IF IsObj(Get(itemMap, <<"request">>))
                        THEN scanRequest(Get(itemMap, <<"request">>), currentPath)
                        ELSE <<>>
             IN nested \o req])

\* The matches of a document before deduplication (ScanCollection up to its last line)
AllMatches(collectionData) ==
    LET whole == scanData(Marshal(collectionData), <<"Collection JSON">>)
        collection == Get(collectionData, <<"collection">>)
        items == IF IsObj(collection) THEN Get(collection, <<"item">>) ELSE Nil
    IN whole \o (IF IsArr(items) THEN scanItems(items.v, <<>>) ELSE <<>>)

ScanCollection(collectionData) == deduplicateMatches(AllMatches(collectionData))

(***************************************************************************)
(* Verifier (scanner package, VerifySecret and the per-type probes).  A    *)
(* probe's outcome is the pair of the VerificationResult and the request   *)
(* that was issued (None when no request is made).  resp is what the       *)
(* issuing service answers: a transport error, or a status and a body.     *)
(* Messages are the source's without their leading symbol and without the  *)
(* formatted detail (error text, status number) some of them end with.     *)
(***************************************************************************)
TransportError == [err |-> TRUE, status |-> 0, body |-> <<>>]
Response(status, body) == [err |-> FALSE, status |-> status, body |-> body]

\* strings.TrimPrefix
TrimPrefix(s, prefix) ==
    IF Len(s) >= Len(prefix) /\ SubSeq(s, 1, Len(prefix)) = prefix
    THEN SubSeq(s, Len(prefix) + 1, Len(s))
    ELSE s

\* strings.TrimSpace
TrimSpace(s) ==
    LET keep == {i \in 1..Len(s) : s[i] \notin Space}
    IN IF keep = {} THEN <<>>
       ELSE SubSeq(s, MinOf(keep), CHOOSE x \in keep : \A y \in keep : y <= x)

Result(valid, message, status, at, limited) ==
    [IsValid |-> valid, Message |-> message, StatusCode |-> status,
     VerifiedAt |-> at, RateLimited |-> limited]

Request(service, credential) == [service |-> service, credential |-> credential]

\* The body texts the probes look for
RateLimitText == <<"r","a","t","e"," ","l","i","m","i","t">>
KeyNotValidText == <<"A","P","I"," ","k","e","y"," ","n","o","t"," ","v","a","l","i","d">>
DisabledText == <<"d","i","s","a","b","l","e","d">>

\* The access key is not used: the same request goes out for every key, and no
\* answer makes the key valid.  The transport-error result carries no time.
verifyAWS(key, resp, t) ==
    LET result ==
            IF resp.err
            THEN Result(FALSE, "Request failed", 0, None, FALSE)
            ELSE Result(FALSE, "AWS verification requires both access key and secret key",
                        resp.status, t, FALSE)
    IN [result |-> result, request |-> Request("sts.amazonaws.com", <<>>)]

\* The GitHub probe with every 403 read as a rejection of the token
verifyGitHubForbiddenInvalid(token, resp, t) ==
    LET tok == TrimSpace(TrimPrefix(TrimPrefix(token, <<"B","e","a","r","e","r">>),
                                    <<"b","e","a","r","e","r">>))
        result ==
            IF resp.err
            THEN Result(FALSE, "Request failed", 0, t, FALSE)
            ELSE CASE resp.status = 200 ->
                        Result(TRUE, "ACTIVE - Token is valid and working", 200, t, FALSE)
                   [] resp.status \in {401, 403} ->
                        Result(FALSE, "INVALID - Token is not valid or expired",
                               resp.status, t, FALSE)
                   [] OTHER ->
                        Result(FALSE, "Unexpected status", resp.status, t, FALSE)
    IN [result |-> result, request |-> Request("api.github.com/user", tok)]

verifyGitHub(token, resp, t) ==
    LET tok == TrimSpace(TrimPrefix(TrimPrefix(token, <<"B","e","a","r","e","r">>),
                                    <<"b","e","a","r","e","r">>))
        result ==
            IF resp.err
            THEN Result(FALSE, "Request failed", 0, t, FALSE)
            ELSE CASE resp.status = 200 ->
                        Result(TRUE, "ACTIVE - Token is valid and working", 200, t, FALSE)
                   [] resp.status = 401 ->
                        Result(FALSE, "INVALID - Token is not valid or expired", 401, t, FALSE)
                   [] resp.status = 403 ->
                        IF Contains(resp.body, RateLimitText)
                        THEN Result(FALSE, "RATE LIMITED - Cannot verify at this time",
                                    403, t, TRUE)
                        ELSE Result(TRUE, "VALID but insufficient permissions", 403, t, FALSE)
                   [] OTHER ->
                        Result(FALSE, "Unexpected status", resp.status, t, FALSE)
    IN [result |-> result, request |-> Request("api.github.com/user", tok)]

\* The Stripe probe with every status of 200..299 read as success
verifyStripeAny2xx(key, resp, t) ==
    LET k == TrimSpace(key)
        result ==
            IF resp.err
            THEN Result(FALSE, "Request failed", 0, t, FALSE)
            ELSE CASE resp.status \in 200..299 ->
                        Result(TRUE, "ACTIVE - Stripe key is valid", resp.status, t, FALSE)
                   [] resp.status = 401 ->
                        Result(FALSE, "INVALID - Key is not valid", 401, t, FALSE)
                   [] OTHER ->
                        Result(FALSE, "Unexpected status", resp.status, t, FALSE)
    IN [result |-> result, request |-> Request("api.stripe.com/v1/customers", k)]

verifyStripe(key, resp, t) ==
    LET k == TrimSpace(key)
        result ==
            IF resp.err
            THEN Result(FALSE, "Request failed", 0, t, FALSE)
            ELSE CASE resp.status = 200 ->
                        Result(TRUE, "ACTIVE - Stripe key is valid", 200, t, FALSE)
                   [] resp.status = 401 ->
                        Result(FALSE, "INVALID - Key is not valid", 401, t, FALSE)
                   [] OTHER ->
                        Result(FALSE, "Unexpected status", resp.status, t, FALSE)
    IN [result |-> result, request |-> Request("api.stripe.com/v1/customers", k)]

\* The body of a Slack answer is the decoded {ok, error} object, or anything else
\* when it does not decode.
verifySlack(token, resp, t) ==
    LET tok == TrimSpace(token)
        decodes == resp.body # <<>> /\ resp.body[1] \in {"ok:true", "ok:false"}
        result ==
            IF resp.err
            THEN Result(FALSE, "Request failed", 0, t, FALSE)
            ELSE IF ~decodes
            THEN Result(FALSE, "Invalid response", 0, t, FALSE)
            ELSE IF resp.body[1] = "ok:true"
            THEN Result(TRUE, "ACTIVE - Token is valid", resp.status, t, FALSE)
            ELSE Result(FALSE, "INVALID", resp.status, t, FALSE)
    IN [result |-> result, request |-> Request("slack.com/api/auth.test", tok)]

verifyGoogleAPI(apiKey, resp, t) ==
    LET k == TrimSpace(apiKey)
        result ==
            IF resp.err
            THEN Result(FALSE, "Request failed", 0, t, FALSE)
            ELSE CASE resp.status = 200 ->
                        Result(TRUE, "ACTIVE - API key is valid", 200, t, FALSE)
                   [] resp.status = 400 ->
                        IF Contains(resp.body, KeyNotValidText)
                        THEN Result(FALSE, "INVALID - API key not recognized", 400, t, FALSE)
                        ELSE IF Contains(resp.body, DisabledText)
                        THEN Result(TRUE, "VALID but API disabled for this key", 400, t, FALSE)
                        ELSE Result(FALSE, "Cannot verify - ambiguous response", 400, t, FALSE)
                   [] resp.status = 403 ->
                        Result(TRUE, "VALID but quota exceeded or API not enabled",
                               403, t, FALSE)
                   [] OTHER ->
                        Result(FALSE, "Unexpected status", resp.status, t, FALSE)
    IN [result |-> result, request |-> Request("www.googleapis.com/youtube/v3/search", k)]

verifySendGrid(apiKey, resp, t) ==
    LET k == TrimSpace(apiKey)
        result ==
            IF resp.err
            THEN Result(FALSE, "Request failed", 0, t, FALSE)
            ELSE CASE resp.status = 200 ->
                        Result(TRUE, "ACTIVE - SendGrid API key is valid", 200, t, FALSE)
                   [] resp.status \in {401, 403} ->
                        Result(FALSE, "INVALID - API key not valid", resp.status, t, FALSE)
                   [] OTHER ->
                        Result(FALSE, "Unexpected status", resp.status, t, FALSE)
    IN [result |-> result, request |-> Request("api.sendgrid.com/v3/scopes", k)]

\* encoding/base64: the 64 digits of StdEncoding and of (Raw)URLEncoding
encodeStd ==
    <<"A","B","C","D","E","F","G","H","I","J","K","L","M","N","O","P","Q","R","S","T",
      "U","V","W","X","Y","Z","a","b","c","d","e","f","g","h","i","j","k","l","m","n",
      "o","p","q","r","s","t","u","v","w","x","y","z","0","1","2","3","4","5","6","7",
      "8","9","+","/">>
encodeURL ==
    <<"A","B","C","D","E","F","G","H","I","J","K","L","M","N","O","P","Q","R","S","T",
      "U","V","W","X","Y","Z","a","b","c","d","e","f","g","h","i","j","k","l","m","n",
      "o","p","q","r","s","t","u","v","w","x","y","z","0","1","2","3","4","5","6","7",
      "8","9","-","_">>

\* The characters of the bytes 32..126; the grave accent (96) and every other byte
\* are the atom "<byte>"
Printable ==
    <<" ","!","\"","#","$","%","&","'","(",")","*","+",",","-",".","/","0","1","2",
      "3","4","5","6","7","8","9",":",";","<","=",">","?","@","A","B","C","D","E","F",
      "G","H","I","J","K","L","M","N","O","P","Q","R","S","T","U","V","W","X","Y","Z",
      "[","\\","]","^","_","<byte>","a","b","c","d","e","f","g","h","i","j","k","l","m",
      "n","o","p","q","r","s","t","u","v","w","x","y","z","{","|","}","~">>

\* Encoding.DecodeString, not in strict mode: s is read in the digits of alphabet;
\* padded tells StdEncoding (input a multiple of 4 long, the last group completed
\* with "=") from RawURLEncoding (no padding accepted: "=" is corrupt input).  The
\* result is the decoded bytes as characters, or ok = FALSE for corrupt input.
DecodeString(alphabet, padded, s) ==
    LET digits == {alphabet[i] : i \in 1..64}
        notPad == {i \in 1..Len(s) : s[i] # "="}
        dataLen == IF ~padded THEN Len(s)
                   ELSE IF notPad = {} THEN 0
                   ELSE CHOOSE i \in notPad : \A j \in notPad : j <= i
        pads == Len(s) - dataLen
        v == [i \in 1..dataLen |->
                IF s[i] \in digits
                THEN (CHOOSE k \in 1..64 : alphabet[k] = s[i]) - 1
                ELSE 0]
        byte(k) ==
            LET base == 4 * (k \div 3)
            IN CASE k % 3 = 0 -> v[base + 1] * 4 + v[base + 2] \div 16
                 [] k % 3 = 1 -> (v[base + 2] % 16) * 16 + v[base + 3] \div 4
                 [] OTHER -> (v[base + 3] % 4) * 64 + v[base + 4]
        char(b) == IF b \in 32..126 THEN Printable[b - 31] ELSE "<byte>"
        ok == /\ \A i \in 1..dataLen : s[i] \in digits
              /\ dataLen % 4 # 1
              /\ padded => (pads <= 2 /\ Len(s) % 4 = 0)
    IN [ok |-> ok,
        bytes |-> IF ok THEN [k \in 1..((dataLen * 6) \div 8) |-> char(byte(k - 1))]
                  ELSE <<>>]

\* strings.Split(s, sep) for a one-character separator
RECURSIVE Split(_, _)
Split(s, sep) ==
    LET at == {i \in 1..Len(s) : s[i] = sep}
    IN IF at = {} THEN <<s>>
       ELSE <<SubSeq(s, 1, MinOf(at) - 1)>>
            \o Split(SubSeq(s, MinOf(at) + 1, Len(s)), sep)

\* strconv: the value of a decimal numeral
RECURSIVE Atoi(_)
Atoi(ds) ==
    IF ds = <<>> THEN 0
    ELSE Atoi(SubSeq(ds, 1, Len(ds) - 1)) * 10
         + (CHOOSE n \in 0..9 : Itoa(n) = <<ds[Len(ds)]>>)

\* json.Unmarshal(decoded, &claims) with claims a map[string]interface{}, for texts
\* without white space, escapes, nesting, signs, fractions and literals other than
\* null: the text null leaves the map nil without an error, an object of members
\* "key":"string" or "key":number fills it, anything else is an error.  The claims
\* are the members in their order (a later member of the same key overrides).
NoClaims == [ok |-> FALSE, claims |-> <<>>]
RECURSIVE members(_, _, _)
members(text, i, acc) ==
    LET quotes(from) == {j \in from..Len(text) : text[j] = "\""}
        keyEnd == IF quotes(i + 1) = {} THEN 0 ELSE MinOf(quotes(i + 1))
        vs == keyEnd + 2
        strEnd == IF quotes(vs + 1) = {} THEN 0 ELSE MinOf(quotes(vs + 1))
        numEnd == vs + RunLen(Digit, text, vs, 0, TRUE) - 1
        isStr == vs <= Len(text) /\ text[vs] = "\"" /\ strEnd # 0
        isNum == /\ vs <= Len(text) /\ text[vs] \in Digit
                 /\ (text[vs] = "0" => numEnd = vs)
        valEnd == IF isStr THEN strEnd ELSE numEnd
        member == [key |-> SubSeq(text, i + 1, keyEnd - 1),
                   number |-> isNum,
                   value |-> IF isStr THEN SubSeq(text, vs + 1, strEnd - 1)
                             ELSE SubSeq(text, vs, numEnd)]
    IN IF \/ i > Len(text) \/ text[i] # "\"" \/ keyEnd = 0
          \/ keyEnd + 1 > Len(text) \/ text[keyEnd + 1] # ":"
          \/ ~(isStr \/ isNum)
          \/ "\\" \in {text[j] : j \in i..valEnd}
       THEN NoClaims
       ELSE IF valEnd + 1 = Len(text) /\ text[valEnd + 1] = "}"
       THEN [ok |-> TRUE, claims |-> Append(acc, member)]
       ELSE IF valEnd + 1 < Len(text) /\ text[valEnd + 1] = ","
       THEN members(text, valEnd + 2, Append(acc, member))
       ELSE NoClaims

Unmarshal(text) ==
    IF text = <<"n","u","l","l">> \/ text = <<"{", "}">>
    THEN [ok |-> TRUE, claims |-> <<>>]
    ELSE IF Len(text) > 2 /\ text[1] = "{"
    THEN members(text, 2, <<>>)
    ELSE NoClaims

\* exp, ok := claims["exp"].(float64): ok is false when the map has no exp or its exp
\* is not a number
ExpOf(claims) ==
    LET at == {i \in 1..Len(claims) : claims[i].key = <<"e","x","p">>}
        last == CHOOSE i \in at : \A j \in at : j <= i
    IN IF at = {} \/ ~claims[last].number
       THEN [ok |-> FALSE, exp |-> 0]
       ELSE [ok |-> TRUE, exp |-> Atoi(claims[last].value)]

\* No request is made.  t is the clock in seconds, the unit of exp.
verifyJWT(token, t) ==
    LET parts == Split(token, ".")
        m == Len(parts[2]) % 4
        payload == IF m # 0 THEN parts[2] \o Repeat("=", 4 - m) ELSE parts[2]
        raw == DecodeString(encodeURL, FALSE, payload)
        std == DecodeString(encodeStd, TRUE, payload)
        parsed == Unmarshal(IF raw.ok THEN raw.bytes ELSE std.bytes)
        expiry == ExpOf(parsed.claims)
        result ==
            IF Len(parts) # 3
            THEN Result(FALSE, "INVALID - Malformed JWT", 0, t, FALSE)
            ELSE IF ~raw.ok /\ ~std.ok
            THEN Result(FALSE, "Cannot decode JWT payload", 0, t, FALSE)
            ELSE IF ~parsed.ok
            THEN Result(FALSE, "Invalid JWT payload", 0, t, FALSE)
            ELSE IF expiry.ok
            THEN IF t > expiry.exp
                 THEN Result(FALSE, "EXPIRED - Token expired", 0, t, FALSE)
                 ELSE Result(TRUE, "VALID structure - Expires", 0, t, FALSE)
            ELSE Result(TRUE, "VALID structure (no expiration, signature not verified)",
                        0, t, FALSE)
    IN [result |-> result, request |-> None]

\* The string of the secret that VerifySecret hands to the per-type probe
VerifiedField(secret) == secret.Value

VerifySecret(secret, resp, t) ==
    CASE secret.Type = <<"AWS Access Key">> ->
            verifyAWS(VerifiedField(secret), resp, t)
      [] secret.Type \in {<<"GitHub Token">>, <<"GitHub OAuth">>} ->
            verifyGitHub(VerifiedField(secret), resp, t)
      [] secret.Type = <<"Slack Token">> ->
            verifySlack(VerifiedField(secret), resp, t)
      [] secret.Type = <<"Google API Key">> ->
            verifyGoogleAPI(VerifiedField(secret), resp, t)
      [] secret.Type \in {<<"Stripe Secret Key">>, <<"Stripe Restricted Key">>} ->
            verifyStripe(VerifiedField(secret), resp, t)
      [] secret.Type = <<"SendGrid API Key">> ->
            verifySendGrid(VerifiedField(secret), resp, t)
      [] secret.Type = <<"JWT Token">> ->
            verifyJWT(VerifiedField(secret), t)
      [] OTHER ->
            [result |-> Result(FALSE, "Verification not supported for this secret type",
                               0, t, FALSE),
             request |-> None]

(***************************************************************************)
(* Cross-document duplicate detector (reporter/reporter.go)                *)
(***************************************************************************)
\* The collection names appended for one raw value, in the order of the alerts and of
\* each alert's secrets
NamesOf(alerts, raw) ==
    Flatten([a \in 1..Len(alerts) |->
        Flatten([k \in 1..Len(alerts[a].Secrets) |->
            IF alerts[a].Secrets[k].RawValue = raw
            THEN <<alerts[a].Collection.Name>>
            ELSE <<>>])])

\* The raw values that get an entry in secretToCollections
RawValuesOf(alerts) ==
    UNION {{alerts[a].Secrets[k].RawValue : k \in 1..Len(alerts[a].Secrets)} :
           a \in 1..Len(alerts)} \ {<<>>}

DetectDuplicateSecrets(alerts) ==
    [raw \in {r \in RawValuesOf(alerts) : Len(NamesOf(alerts, r)) > 1} |->
        NamesOf(alerts, raw)]

(***************************************************************************)
(* Configuration (config package)                                          *)
(***************************************************************************)
EmailConfig(host, from, to) == [SMTPHost |-> host, From |-> from, To |-> to]

HasEmailConfigured(c) ==
    \/ /\ c.Email.SMTPHost # <<>>
       /\ c.Email.From # <<>>
       /\ Len(c.Email.To) > 0
       /\ c.Email.SMTPHost # <<"smtp.gmail.com">>
    \/ /\ c.Email.SMTPHost = <<"smtp.gmail.com">>
       /\ c.Email.From # <<"your-email@gmail.com">>

\* Config.Validate, for the fields the monitor reads
Validate(c) ==
    /\ (c.Email.SMTPHost # <<>> /\ c.Email.SMTPHost # <<"smtp.gmail.com">>)
           => (c.Email.From # <<>> /\ Len(c.Email.To) > 0)
    /\ Len(c.MonitorKeywords) > 0

(***************************************************************************)
(* The world the monitor runs in: the configured keywords, the collections *)
(* the Postman account can list, and what each collection holds.           *)
(***************************************************************************)
KwAcme == <<"a","c","m","e">>
KwPay == <<"p","a","y">>
MonitorKeywords == <<KwAcme, KwPay>>
IgnoreKeywords == << <<"t","e","s","t">>, <<"d","e","m","o">> >>

Me == <<"9">>
Collection(id, name, description, owner) ==
    [ID |-> id, Name |-> name, Description |-> description, Owner |-> owner]

ColA == Collection(<<"1">>, <<"A","c","m","e"," ","A","P","I">>, <<>>, <<"7">>)
ColB == Collection(<<"2">>, <<"P","a","y"," ","A","P","I">>, <<>>, <<"8">>)
ColOwn == Collection(<<"3">>, <<"a","c","m","e">>, <<>>, Me)
ColIgn == Collection(<<"4">>, <<"A","c","m","e"," ","T","e","s","t">>, <<>>, <<"8">>)
Universe == {ColA, ColB, ColOwn, ColIgn}

EmailConfigs == {
    EmailConfig(<<>>, <<>>, <<>>),
    EmailConfig(<<"smtp.corp.example">>, <<"bot@corp.example">>, <<<<"sec@corp.example">>>>) }

Configs ==
    {c \in [dryRun : BOOLEAN,
            DeepScan : [Enabled : BOOLEAN, VerifySecrets : BOOLEAN],
            Email : EmailConfigs,
            MonitorKeywords : {MonitorKeywords},
            IgnoreKeywords : {IgnoreKeywords}] : Validate(c)}

\* Credentials and documents
GhpPrefix == <<"g","h","p","_">>
TokA == GhpPrefix \o Repeat("a", 36)
TokB == GhpPrefix \o Repeat("a", 16) \o <<"b">> \o Repeat("a", 19)
TokC == GhpPrefix \o Repeat("c", 36)

Field(key, value) == <<key, value>>
Header(key, value) == Obj(<<Field(<<"key">>, Str(key)), Field(<<"value">>, Str(value))>>)
RequestItem(name, fields) ==
    Obj(<<Field(<<"name">>, Str(name)), Field(<<"request">>, Obj(fields))>>)
Folder(name, items) ==
    Obj(<<Field(<<"item">>, Arr(items)), Field(<<"name">>, Str(name))>>)
Document(items) ==
    Obj(<<Field(<<"collection">>, Obj(<<Field(<<"item">>, Arr(items))>>))>>)

XToken == <<"X","-","T","o","k","e","n">>
Login == <<"L","o","g","i","n">>
Ping == <<"P","i","n","g">>
PlainURL == <<"h","t","t","p","s",":","/","/","a",".","i","o">>

\* One request carrying one GitHub token in a header
DocToken == Document(<<RequestItem(Login, <<Field(<<"header">>, Arr(<<Header(XToken, TokA)>>))>>)>>)
\* One request without credentials
DocPlain == Document(<<RequestItem(Ping, <<Field(<<"url">>, Str(PlainURL))>>)>>)

\* What GetCollectionAsMap can answer for a collection id, besides an error
DocsOf(id) == IF id = ColA.ID THEN {DocToken} ELSE {DocPlain}
FetchError == [t |-> "error", v |-> <<>>]
\* No fetch is made (deep scan off)
NotFetched == [t |-> "none", v |-> <<>>]

\* Accessible-collection listings of the Postman account
MaxListing == 2
Listings == UNION {[1..n -> Universe] : n \in 0..MaxListing}

\* Answers of the issuing services to the monitor's probes
MonitorResponses == {Response(200, <<>>), Response(401, <<>>), TransportError}

(***************************************************************************)
(* Monitor (observer package)                                              *)
(***************************************************************************)
CooldownDays == 7
SweepDays == 30
\* Days the clock may reach: in the full model, and in the model of the cooldown
MaxTime == 1
MaxCooldownTime == 8

\* SearchCollectionsByQuery's local filter over the listing
RECURSIVE FilterByQuery(_, _)
FilterByQuery(listing, query) ==
    IF listing = <<>> THEN <<>>
    ELSE LET col == Head(listing)
             hit == \/ Contains(ToLower(col.Name), ToLower(query))
                    \/ Contains(ToLower(col.Description), ToLower(query))
         IN (IF hit THEN <<col>> ELSE <<>>) \o FilterByQuery(Tail(listing), query)

IsOwn(col) == currentUserID # <<>> /\ col.Owner = currentUserID

\* The ignore test looking at the name only
shouldIgnoreByName(col) ==
    \E i \in 1..Len(config.IgnoreKeywords) :
        Contains(ToLower(col.Name), ToLower(config.IgnoreKeywords[i]))

shouldIgnore(col) ==
    \E i \in 1..Len(config.IgnoreKeywords) :
        \/ Contains(ToLower(col.Name), ToLower(config.IgnoreKeywords[i]))
        \/ Contains(ToLower(col.Description), ToLower(config.IgnoreKeywords[i]))

\* fmt.Sprintf("%s:%s", keyword, col.ID)
alertKey(keyword, id) == keyword \o <<":">> \o id

\* The cooldown test with the boundary day counted as recent
RecentlyAlertedInclusive(key) ==
    key \in DOMAIN seenAlerts /\ now - seenAlerts[key] <= CooldownDays

\* The cooldown test that takes an entry written at this very time for absent
RecentlyAlertedEarlier(key) ==
    key \in DOMAIN seenAlerts /\ now - seenAlerts[key] < CooldownDays
                             /\ now - seenAlerts[key] > 0

\* The cooldown test that never lets an entry expire
RecentlyAlertedForever(key) == key \in DOMAIN seenAlerts

\* time.Since(lastAlert) < 7*24*time.Hour, for an existing entry
RecentlyAlerted(key) ==
    key \in DOMAIN seenAlerts /\ now - seenAlerts[key] < CooldownDays

\* The sweep with the boundary day counted as old
cleanupSeenAlertsInclusive(store, t) ==
    LET cutoff == t - SweepDays
        kept == {k \in DOMAIN store : ~(store[k] <= cutoff)}
    IN [k \in kept |-> store[k]]

\* The sweep with a cutoff of one day
cleanupSeenAlertsDaily(store, t) ==
    LET cutoff == t - 1
        kept == {k \in DOMAIN store : ~(store[k] < cutoff)}
    IN [k \in kept |-> store[k]]

cleanupSeenAlerts(store, t) ==
    LET cutoff == t - SweepDays
        kept == {k \in DOMAIN store : ~(store[k] < cutoff)}
    IN [k \in kept |-> store[k]]

NewAlert(keyword, col, secrets, t) ==
    [Keyword |-> keyword, Collection |-> col, Secrets |-> secrets,
     IsPublic |-> TRUE, Timestamp |-> t]

\* ScanCollection over the documents the world holds, computed once per document
AllDocs == UNION {DocsOf(col.ID) : col \in Universe}
ScanOf == [d \in AllDocs |-> ScanCollection(d)]

\* var secrets []scanner.SecretMatch, as the deep scan leaves it
Scanned(fetched) ==
    IF fetched \in {FetchError, NotFetched} THEN <<>> ELSE ScanOf[fetched]

\* The verification loop left at the first probe that fails at the transport level
WithVerificationUntilFailure(found, outcomes) ==
    IF outcomes = <<>>
    THEN found
    ELSE [i \in 1..Len(found) |->
            IF \E j \in 1..i : outcomes[j].result.Message = "Request failed"
            THEN found[i]
            ELSE [found[i] EXCEPT !.Verification = outcomes[i].result]]

\* The secrets of an alert: the scan's matches, each with the result of its probe when
\* probes were made
WithVerification(found, outcomes) ==
    IF outcomes = <<>>
    THEN found
    ELSE [i \in 1..Len(found) |-> [found[i] EXCEPT !.Verification = outcomes[i].result]]

NoDoc == [key |-> <<>>, decision |-> "none", had |-> FALSE, prev |-> 0,
          fetch |-> "none", probes |-> <<>>]
Decided(key, decision, fetch, probes) ==
    [key |-> key, decision |-> decision,
     had |-> key \in DOMAIN seenAlerts,
     prev |-> IF key \in DOMAIN seenAlerts THEN seenAlerts[key] ELSE 0,
     fetch |-> fetch, probes |-> probes]

Init ==
    /\ now = 0
    /\ seenAlerts = <<>>
    /\ currentUserID = <<>>
    /\ config \in Configs
    /\ pc = "start"
    /\ ki = 1
    /\ collections = <<>>
    /\ ci = 1
    /\ allAlerts = <<>>
    /\ lastDoc = NoDoc
    /\ sent = 0
    /\ reports = 0
    /\ sweeps = 0
    /\ ret = "none"
    /\ arg = None
    /\ res = None

\* Start / RunOnce: GetCurrentUser answers, or fails and user filtering is off
GetCurrentUser ==
    /\ pc = "start"
    /\ pc' = "idle"
    /\ \E userID \in {<<>>, Me} : currentUserID' = userID
    /\ UNCHANGED <<now, seenAlerts, config, ki, collections, ci, allAlerts, lastDoc,
                   sent, reports, sweeps, ret, arg, res>>

\* Time passes between two runs
TickUpTo(horizon) ==
    /\ pc = "idle"
    /\ now < horizon
    /\ now' = now + 1
    /\ UNCHANGED <<seenAlerts, currentUserID, config, pc, ki, collections, ci, allAlerts,
                   lastDoc, sent, reports, sweeps, ret, arg, res>>

\* runCheck is entered
StartRun ==
    /\ pc = "idle"
    /\ pc' = "search"
    /\ ki' = 1
    /\ collections' = <<>>
    /\ ci' = 1
    /\ allAlerts' = <<>>
    /\ ret' = "running"
    /\ UNCHANGED <<now, seenAlerts, currentUserID, config, lastDoc, sent, reports, sweeps,
                   arg, res>>

\* The keyword loop moves on: to the next keyword, or out of the loop
AdvanceKeyword ==
    IF ki < Len(config.MonitorKeywords)
    THEN ki' = ki + 1 /\ pc' = "search"
    ELSE ki' = 1 /\ pc' = "notify"

\* The collection loop stepping over every other collection
AdvanceCollectionByTwo ==
    IF ci + 1 < Len(collections)
    THEN ci' = ci + 2 /\ UNCHANGED <<pc, ki, collections>>
    ELSE ci' = 1 /\ collections' = <<>> /\ AdvanceKeyword

\* The collection loop moves on: to the next collection, or to the next keyword
AdvanceCollection ==
    IF ci < Len(collections)
    THEN ci' = ci + 1 /\ UNCHANGED <<pc, ki, collections>>
    ELSE ci' = 1 /\ collections' = <<>> /\ AdvanceKeyword

\* SearchCollectionsByQuery fails: logged, next keyword
SearchFailed ==
    /\ pc = "search"
    /\ AdvanceKeyword
    /\ UNCHANGED <<now, seenAlerts, currentUserID, config, collections, ci, allAlerts,
                   lastDoc, sent, reports, sweeps, ret, arg, res>>

\* SearchCollectionsByQuery answers, the account listing one of listings
SearchAnswered(listings) ==
    /\ pc = "search"
    /\ \E listing \in listings :
        LET found == FilterByQuery(listing, config.MonitorKeywords[ki])
        IN IF found = <<>>
           THEN AdvanceKeyword /\ UNCHANGED <<collections, ci>>
           ELSE collections' = found /\ ci' = 1 /\ pc' = "col" /\ ki' = ki
    /\ UNCHANGED <<now, seenAlerts, currentUserID, config, allAlerts, lastDoc,
                   sent, reports, sweeps, ret, arg, res>>

SearchReturned == SearchAnswered(Listings)

\* A continue placed after the write of the suppression entry
SkipAfterWrite(decision) ==
    /\ lastDoc' = Decided(alertKey(config.MonitorKeywords[ki], collections[ci].ID),
                          decision, "none", <<>>)
    /\ seenAlerts' = [k \in DOMAIN seenAlerts
                            \cup {alertKey(config.MonitorKeywords[ki], collections[ci].ID)} |->
                         IF k = alertKey(config.MonitorKeywords[ki], collections[ci].ID)
                         THEN now ELSE seenAlerts[k]]
    /\ AdvanceCollection
    /\ UNCHANGED <<now, currentUserID, config, allAlerts,
                   sent, reports, sweeps, ret, arg, res>>

\* One iteration of the collection loop that ends in a continue
Skip(decision) ==
    /\ lastDoc' = Decided(alertKey(config.MonitorKeywords[ki], collections[ci].ID),
                          decision, "none", <<>>)
    /\ AdvanceCollection
    /\ UNCHANGED <<now, seenAlerts, currentUserID, config, allAlerts,
                   sent, reports, sweeps, ret, arg, res>>

SkipOwn ==
    /\ pc = "col"
    /\ IsOwn(collections[ci])
    /\ Skip("own")

SkipIgnored ==
    /\ pc = "col"
    /\ ~IsOwn(collections[ci])
    /\ shouldIgnore(collections[ci])
    /\ Skip("ignored")

SkipRecent ==
    /\ pc = "col"
    /\ ~IsOwn(collections[ci])
    /\ ~shouldIgnore(collections[ci])
    /\ RecentlyAlerted(alertKey(config.MonitorKeywords[ki], collections[ci].ID))
    /\ Skip("suppressed")

\* What GetCollectionAsMap may answer in this iteration
FetchAnswers ==
    IF config.DeepScan.Enabled
    THEN DocsOf(collections[ci].ID) \cup {FetchError}
    ELSE {NotFetched}

\* The rest of an iteration with the results of the alerts already in the batch wiped
EmitOverwriting(fetched) ==
    \E found \in {Scanned(fetched)} :
    \E resps \in [1..(IF config.DeepScan.VerifySecrets THEN Len(found) ELSE 0)
                  -> MonitorResponses] :
    \E outcomes \in {[i \in DOMAIN resps |-> VerifySecret(found[i], resps[i], now)]} :
    \E key \in {alertKey(config.MonitorKeywords[ki], collections[ci].ID)} :
       /\ allAlerts' = Append(
              [a \in 1..Len(allAlerts) |->
                  [allAlerts[a] EXCEPT !.Secrets =
                      [i \in 1..Len(allAlerts[a].Secrets) |->
                          [allAlerts[a].Secrets[i] EXCEPT !.Verification = None]]]],
              NewAlert(config.MonitorKeywords[ki], collections[ci],
                       WithVerification(found, outcomes), now))
       /\ seenAlerts' = [k \in DOMAIN seenAlerts \cup {key} |->
                            IF k = key THEN now ELSE seenAlerts[k]]
       /\ lastDoc' = Decided(key, "alerted",
              IF fetched = NotFetched THEN "off"
              ELSE IF fetched = FetchError THEN "failed" ELSE "ok",
              [i \in DOMAIN outcomes |-> outcomes[i].request])

\* The rest of an iteration once the fetch has answered: scan, verification, the alert
\* is appended and the suppression entry written.  resps are the answers of the
\* issuing services, one per secret.
Emit(fetched) ==
    \E found \in {Scanned(fetched)} :
    \E resps \in [1..(IF config.DeepScan.VerifySecrets THEN Len(found) ELSE 0)
                  -> MonitorResponses] :
    \E outcomes \in {[i \in DOMAIN resps |-> VerifySecret(found[i], resps[i], now)]} :
    \E key \in {alertKey(config.MonitorKeywords[ki], collections[ci].ID)} :
       /\ allAlerts' = Append(allAlerts,
              NewAlert(config.MonitorKeywords[ki], collections[ci],
                       WithVerification(found, outcomes), now))
       /\ seenAlerts' = [k \in DOMAIN seenAlerts \cup {key} |->
                            IF k = key THEN now ELSE seenAlerts[k]]
       /\ lastDoc' = Decided(key, "alerted",
              IF fetched = NotFetched THEN "off"
              ELSE IF fetched = FetchError THEN "failed" ELSE "ok",
              [i \in DOMAIN outcomes |-> outcomes[i].request])

\* The iteration with a continue in the branch of the failed fetch
AlertCollectionUnlessFetchFailed ==
    /\ pc = "col"
    /\ ~IsOwn(collections[ci])
    /\ ~shouldIgnore(collections[ci])
    /\ ~RecentlyAlerted(alertKey(config.MonitorKeywords[ki], collections[ci].ID))
    /\ \E fetched \in FetchAnswers :
          IF fetched = FetchError
          THEN /\ lastDoc' = Decided(alertKey(config.MonitorKeywords[ki],
                                              collections[ci].ID),
                                     "skipped", "failed", <<>>)
               /\ UNCHANGED <<allAlerts, seenAlerts>>
          ELSE Emit(fetched)
    /\ AdvanceCollection
    /\ UNCHANGED <<now, currentUserID, config, sent, reports, sweeps, ret, arg, res>>

\* One iteration of the collection loop that reaches its end.  A failed fetch is
\* logged and the iteration goes on with no secrets.
AlertCollection ==
    /\ pc = "col"
    /\ ~IsOwn(collections[ci])
    /\ ~shouldIgnore(collections[ci])
    /\ ~RecentlyAlerted(alertKey(config.MonitorKeywords[ki], collections[ci].ID))
    /\ \E fetched \in FetchAnswers : Emit(fetched)
    /\ AdvanceCollection
    /\ UNCHANGED <<now, currentUserID, config, sent, reports, sweeps, ret, arg, res>>

\* The end of runCheck: notification, reports, sweep, return
Finish(sends, reported, swept, result) ==
    /\ pc = "notify"
    /\ pc' = "returned"
    /\ sent' = sends
    /\ reports' = reported
    /\ sweeps' = swept
    /\ seenAlerts' = IF swept > 0 THEN cleanupSeenAlerts(seenAlerts, now) ELSE seenAlerts
    /\ ret' = result
    /\ UNCHANGED <<now, currentUserID, config, ki, collections, ci, allAlerts, lastDoc,
                   arg, res>>

FinishNoAlerts ==
    /\ Len(allAlerts) = 0
    /\ Finish(0, 0, 1, "nil")

\* The dry run that calls SendAlert all the same
FinishDryRunSending ==
    /\ Len(allAlerts) > 0
    /\ config.dryRun
    /\ Finish(1, 1, 1, "nil")

FinishDryRun ==
    /\ Len(allAlerts) > 0
    /\ config.dryRun
    /\ Finish(0, 1, 1, "nil")

FinishNoEmail ==
    /\ Len(allAlerts) > 0
    /\ ~config.dryRun
    /\ ~HasEmailConfigured(config)
    /\ Finish(0, 1, 1, "nil")

FinishSent ==
    /\ Len(allAlerts) > 0
    /\ ~config.dryRun
    /\ HasEmailConfigured(config)
    /\ Finish(1, 1, 1, "nil")

\* SendAlert fails: runCheck returns the error at once
FinishSendFailed ==
    /\ Len(allAlerts) > 0
    /\ ~config.dryRun
    /\ HasEmailConfigured(config)
    /\ Finish(1, 0, 0, "error")

\* Start's loop waits for the next tick of its ticker; what the finished run did is
\* forgotten
WaitForTicker ==
    /\ pc = "returned"
    /\ pc' = "idle"
    /\ sent' = 0
    /\ reports' = 0
    /\ sweeps' = 0
    /\ ret' = "none"
    /\ allAlerts' = <<>>
    /\ lastDoc' = NoDoc
    /\ UNCHANGED <<now, seenAlerts, currentUserID, config, ki, collections, ci, arg, res>>

Tick == TickUpTo(MaxTime)

TickCooldown == TickUpTo(MaxCooldownTime)

\* runCheck, one step of it
RunStep ==
    \/ WaitForTicker
    \/ StartRun
    \/ SearchFailed
    \/ SearchReturned
    \/ SkipOwn
    \/ SkipIgnored
    \/ SkipRecent
    \/ AlertCollection
    \/ FinishNoAlerts
    \/ FinishDryRun
    \/ FinishNoEmail
    \/ FinishSent
    \/ FinishSendFailed

Next ==
    \/ GetCurrentUser
    \/ Tick
    \/ RunStep

Spec == Init /\ [][Next]_vars

\* The monitor over the days of a cooldown, with the deep scan switched off and
\* e-mail delivery on
InitCooldown ==
    /\ Init
    /\ ~config.DeepScan.Enabled
    /\ ~config.DeepScan.VerifySecrets
    /\ ~config.dryRun
    /\ HasEmailConfigured(config)

NextCooldown ==
    \/ GetCurrentUser
    \/ TickCooldown
    \/ WaitForTicker
    \/ StartRun
    \/ SearchFailed
    \/ SearchReturned
    \/ SkipOwn
    \/ SkipIgnored
    \/ SkipRecent
    \/ AlertCollection
    \/ FinishNoAlerts
    \/ FinishSent
    \/ FinishSendFailed

SpecCooldown == InitCooldown /\ [][NextCooldown]_vars

\* The monitor with deep scan, verification and e-mail delivery on, over an account
\* that also lists a collection whose description, not its name, holds an ignore
\* keyword, in capitals
ColDemo == Collection(<<"6">>, <<"A","c","m","e"," ","P","a","y">>,
                      <<"D","E","M","O"," ","d","a","t","a">>, <<"8">>)
FilterUniverse == {ColA, ColOwn, ColIgn, ColDemo}
FilterListings == UNION {[1..n -> FilterUniverse] : n \in 0..MaxListing}

InitFilter ==
    /\ Init
    /\ config.DeepScan.Enabled
    /\ config.DeepScan.VerifySecrets
    /\ ~config.dryRun
    /\ HasEmailConfigured(config)

SearchReturnedFilter == SearchAnswered(FilterListings)

NextFilter ==
    \/ GetCurrentUser
    \/ Tick
    \/ WaitForTicker
    \/ StartRun
    \/ SearchFailed
    \/ SearchReturnedFilter
    \/ SkipOwn
    \/ SkipIgnored
    \/ SkipRecent
    \/ AlertCollection
    \/ FinishNoAlerts
    \/ FinishSent
    \/ FinishSendFailed

SpecFilter == InitFilter /\ [][NextFilter]_vars

\* One run (RunOnce) of a monitor whose second keyword extends its first by ":x",
\* over an account that lists a document whose id starts with "x:"
KwPayX == <<"p","a","y",":","x">>
ColX1 == Collection(<<"x",":","1">>, <<"P","a","y"," ","G","a","t","e">>, <<>>, <<"8">>)
ColOne == Collection(<<"1">>, <<"P","a","y",":","X"," ","d","o","c","s">>, <<>>, <<"8">>)
KeyUniverse == {ColX1, ColOne, ColB}
KeyListings == UNION {[1..n -> KeyUniverse] : n \in 0..MaxListing}
KeyConfigs ==
    [dryRun : {FALSE},
     DeepScan : {[Enabled |-> e, VerifySecrets |-> FALSE] : e \in BOOLEAN},
     Email : {EmailConfig(<<>>, <<>>, <<>>)},
     MonitorKeywords : {<<KwPay, KwPayX>>},
     IgnoreKeywords : {IgnoreKeywords}]

InitKey ==
    /\ now = 0
    /\ seenAlerts = <<>>
    /\ currentUserID = <<>>
    /\ config \in {c \in KeyConfigs : Validate(c)}
    /\ pc = "start"
    /\ ki = 1
    /\ collections = <<>>
    /\ ci = 1
    /\ allAlerts = <<>>
    /\ lastDoc = NoDoc
    /\ sent = 0
    /\ reports = 0
    /\ sweeps = 0
    /\ ret = "none"
    /\ arg = None
    /\ res = None

SearchReturnedKey == SearchAnswered(KeyListings)

NextKey ==
    \/ GetCurrentUser
    \/ StartRun
    \/ SearchFailed
    \/ SearchReturnedKey
    \/ SkipRecent
    \/ AlertCollection
    \/ FinishNoAlerts
    \/ FinishNoEmail

SpecKey == InitKey /\ [][NextKey]_vars

\* The long-lived monitor (Start) over the days of a cooldown, deep scan off and
\* e-mail delivery on, on an account whose searches answer and always list ColA
StartUniverse == {ColA, ColB}
StartListings ==
    {listing \in UNION {[1..n -> StartUniverse] : n \in 1..MaxListing} :
        \E i \in DOMAIN listing : listing[i] = ColA}

SearchReturnedStart == SearchAnswered(StartListings)

\* The steps of Start and of runCheck
StartStep ==
    \/ GetCurrentUser
    \/ WaitForTicker
    \/ StartRun
    \/ SearchReturnedStart
    \/ SkipRecent
    \/ AlertCollection
    \/ FinishNoAlerts
    \/ FinishSent
    \/ FinishSendFailed

NextStart ==
    \/ TickCooldown
    \/ StartStep

SpecStart == InitCooldown /\ [][NextStart]_vars

\* Every call of the run returns (the HTTP clients time out, the ticker keeps
\* firing), and time passes while the monitor waits for its ticker
SpecStartFair == SpecStart /\ WF_vars(StartStep) /\ SF_vars(TickCooldown)

(***************************************************************************)
(* The sweep on its own: a run that finds nothing new, entered with any    *)
(* store of entries between 0 and MaxStamp, at any time around 30 days     *)
(* after them.  arg records the store and the time the run ends with.      *)
(***************************************************************************)
MaxStamp == 3
SweepKeys == {alertKey(KwAcme, ColA.ID), alertKey(KwPay, ColB.ID)}
SweepStores == UNION {[keys -> 0..MaxStamp] : keys \in SUBSET SweepKeys}
SweepTimes == (SweepDays - 1)..(SweepDays + MaxStamp + 1)

InitSweep ==
    /\ now \in SweepTimes
    /\ seenAlerts \in SweepStores
    /\ currentUserID = <<>>
    /\ config \in Configs
    /\ ~config.DeepScan.Enabled /\ ~config.DeepScan.VerifySecrets
    /\ ~config.dryRun /\ ~HasEmailConfigured(config)
    /\ pc = "notify"
    /\ ki = 1
    /\ collections = <<>>
    /\ ci = 1
    /\ allAlerts = <<>>
    /\ lastDoc = NoDoc
    /\ sent = 0
    /\ reports = 0
    /\ sweeps = 0
    /\ ret = "running"
    /\ arg = [store |-> seenAlerts, now |-> now]
    /\ res = None

NextSweep ==
    \/ FinishNoAlerts
    \/ WaitForTicker

SpecSweep == InitSweep /\ [][NextSweep]_vars

\* The same run entered a day or two after day 30 with entries of every age around
\* the cooldown and around the sweep's cutoff
RecentStamps == {0, 1, 2, SweepDays - CooldownDays, SweepDays - CooldownDays + 1,
                 SweepDays - CooldownDays + 2, SweepDays + 1}
RecentStores == UNION {[keys -> RecentStamps] : keys \in SUBSET SweepKeys}
RecentTimes == {SweepDays + 1, SweepDays + 2}

InitSweepRecent ==
    /\ now \in RecentTimes
    /\ seenAlerts \in RecentStores
    /\ currentUserID = <<>>
    /\ config \in Configs
    /\ ~config.DeepScan.Enabled /\ ~config.DeepScan.VerifySecrets
    /\ ~config.dryRun /\ ~HasEmailConfigured(config)
    /\ pc = "notify"
    /\ ki = 1
    /\ collections = <<>>
    /\ ci = 1
    /\ allAlerts = <<>>
    /\ lastDoc = NoDoc
    /\ sent = 0
    /\ reports = 0
    /\ sweeps = 0
    /\ ret = "running"
    /\ arg = [store |-> seenAlerts, now |-> now]
    /\ res = None

SpecSweepRecent == InitSweepRecent /\ [][NextSweep]_vars

(***************************************************************************)
(* The functions of the scanner and of the reporter on their own: arg is   *)
(* the input, res the result once pc is "done".                            *)
(***************************************************************************)
Harness(input) ==
    /\ now = 0
    /\ seenAlerts = <<>>
    /\ currentUserID = <<>>
    /\ config \in Configs
    /\ config.DeepScan.Enabled /\ config.DeepScan.VerifySecrets
    /\ ~config.dryRun /\ ~HasEmailConfigured(config)
    /\ pc = "call"
    /\ ki = 1
    /\ collections = <<>>
    /\ ci = 1
    /\ allAlerts = <<>>
    /\ lastDoc = NoDoc
    /\ sent = 0
    /\ reports = 0
    /\ sweeps = 0
    /\ ret = "none"
    /\ arg = input
    /\ res = None

Return(result) ==
    /\ pc' = "done"
    /\ res' = result
    /\ UNCHANGED <<now, seenAlerts, currentUserID, config, ki, collections, ci,
                   allAlerts, lastDoc, sent, reports, sweeps, ret, arg>>

\* Documents of up to MaxItems requests, each named Login or Ping and carrying one of
\* two GitHub tokens (different raw values, same redacted value) in a header or in
\* its URL
MaxItems == 2
URLWith(token) == PlainURL \o <<"?", "t", "=">> \o token
ScanItems ==
    {RequestItem(name, <<Field(<<"header">>, Arr(<<Header(XToken, token)>>))>>) :
        name \in {Login, Ping}, token \in {TokA, TokB}}
    \cup {RequestItem(name, <<Field(<<"url">>, Str(URLWith(token)))>>) :
        name \in {Login, Ping}, token \in {TokA, TokB}}
ScanDocs == {Document(items) : items \in UNION {[1..n -> ScanItems] : n \in 1..MaxItems}}

InitScan == \E doc \in ScanDocs : Harness(doc)

CallScanCollection ==
    /\ pc = "call"
    /\ \E result \in {ScanCollection(arg)} : Return(result)

SpecScan == InitScan /\ [][CallScanCollection]_vars

\* ScanCollection called twice in a row on the same document.  matches and seen are
\* locals of each call and the scanner holds nothing but its patterns, so the second
\* call does not depend on what the first one returned.
ScanAgainRemembering(collectionData, earlier) ==
    DedupFrom(AllMatches(collectionData), 1,
              {DedupKey(earlier[i]) : i \in 1..Len(earlier)})

ScanAgain(collectionData, earlier) == ScanCollection(collectionData)

CallScanFirst ==
    /\ pc = "call"
    /\ pc' = "again"
    /\ \E result \in {ScanCollection(arg)} : res' = <<result>>
    /\ UNCHANGED <<now, seenAlerts, currentUserID, config, ki, collections, ci,
                   allAlerts, lastDoc, sent, reports, sweeps, ret, arg>>

CallScanAgain ==
    /\ pc = "again"
    /\ pc' = "done"
    /\ \E result \in {ScanAgain(arg, res[1])} : res' = Append(res, result)
    /\ UNCHANGED <<now, seenAlerts, currentUserID, config, ki, collections, ci,
                   allAlerts, lastDoc, sent, reports, sweeps, ret, arg>>

NextRescan ==
    \/ CallScanFirst
    \/ CallScanAgain

SpecRescan == InitScan /\ [][NextRescan]_vars

\* Batches of up to MaxBatch alerts, of distinct keys, each for a collection found
\* under a keyword it matches and holding the scan of what the collection contains
MaxBatch == 2
ColBoth == Collection(<<"5">>, <<"A","c","m","e"," ","P","a","y">>, <<>>, <<"8">>)
\* A document whose credential sits outside the item tree
DocInfo(token) ==
    Obj(<<Field(<<"collection">>,
                Obj(<<Field(<<"info">>, Obj(<<Field(<<"description">>, Str(token))>>)),
                      Field(<<"item">>, Arr(<<>>))>>))>>)
BatchDocs == {DocToken, DocPlain, DocInfo(TokA), DocInfo(TokC)}
BatchScan == [d \in BatchDocs |-> ScanCollection(d)]
BatchAlerts ==
    {NewAlert(keyword, col, BatchScan[d], 0) :
        keyword \in {KwAcme, KwPay}, col \in {ColA, ColB, ColBoth}, d \in BatchDocs}
Batches ==
    {b \in UNION {[1..n -> BatchAlerts] : n \in 0..MaxBatch} :
        /\ \A i \in 1..Len(b) : FilterByQuery(<<b[i].Collection>>, b[i].Keyword) # <<>>
        /\ \A i, j \in 1..Len(b) :
              i # j => alertKey(b[i].Keyword, b[i].Collection.ID)
                       # alertKey(b[j].Keyword, b[j].Collection.ID)}

InitDuplicates == \E batch \in Batches : Harness(batch)

CallDetectDuplicateSecrets ==
    /\ pc = "call"
    /\ \E result \in {DetectDuplicateSecrets(arg)} : Return(result)

SpecDuplicates == InitDuplicates /\ [][CallDetectDuplicateSecrets]_vars

\* VerifySecret applied alone: a secret of any type of the catalog (and of the types
\* VerifySecret names), found at one location, and the answer of the service its
\* probe, if any, reaches
TypeNames ==
    {<<"AWS Access Key">>, <<"AWS Secret Key">>, <<"Generic API Key">>, <<"JWT Token">>,
     <<"GitHub Token">>, <<"GitHub OAuth">>, <<"Bearer Token">>, <<"Basic Auth">>,
     <<"Password Field">>, <<"Private Key">>, <<"Slack Token">>, <<"Google API Key">>,
     <<"Stripe Secret Key">>, <<"Stripe Restricted Key">>, <<"SendGrid API Key">>,
     <<"Twilio API Key">>, <<"Heroku API Key">>, <<"Generic Secret">>,
     <<"Database Connection">>, <<"OAuth Client Secret">>}
VerifyMatches == {TokA, <<" ">> \o TokC \o <<" ">>}
VerifySecrets ==
    {NewSecretMatch([Name |-> type, Description |-> type], match, <<"Collection JSON">>) :
        type \in TypeNames, match \in VerifyMatches}
Bodies ==
    {<<>>,
     <<"A","P","I"," ","r","a","t","e"," ","l","i","m","i","t"," ","e","x","c","e","e","d","e","d"," ","f","o","r"," ","u","s","e","r">>,
     <<"R","a","t","e"," ","L","i","m","i","t"," ","E","x","c","e","e","d","e","d">>,
     <<"R","e","s","o","u","r","c","e"," ","n","o","t"," ","a","c","c","e","s","s","i","b","l","e">>,
     <<"A","P","I"," ","k","e","y"," ","n","o","t"," ","v","a","l","i","d","."," ","P","l","e","a","s","e"," ","p","a","s","s"," ","a"," ","v","a","l","i","d"," ","A","P","I"," ","k","e","y",".">>,
     <<"A","P","I"," ","h","a","s"," ","b","e","e","n"," ","d","i","s","a","b","l","e","d">>,
     <<"ok:true">>, <<"ok:false">>}
Statuses == (200..299) \cup {301, 400, 401, 403, 404, 429, 500, 503}
VerifyResponses ==
    {TransportError}
    \cup {Response(status, <<>>) : status \in Statuses}
    \cup {Response(status, body) : status \in {200, 400, 403, 429}, body \in Bodies}

InitVerify ==
    \E secret \in VerifySecrets, resp \in VerifyResponses :
        Harness([secret |-> secret, resp |-> resp])

CallVerifySecret ==
    /\ pc = "call"
    /\ \E result \in {VerifySecret(arg.secret, arg.resp, now)} : Return(result)

SpecVerify == InitVerify /\ [][CallVerifySecret]_vars

\* verifyJWT applied alone, at one of a few clock readings, to a token of header,
\* payload and signature, or of one, two or four segments.  The payloads are the
\* unpadded base64url of the text named above each, unless said otherwise.
JWTHeader == <<"e","y","J","h","b","G","c","i","O","i","J","I","U","z","I","1","N","i","J","9">>
JWTSignature == <<"c","2","l","n">>
JWTPayloads ==
    {\* {"exp":2}
     <<"e","y","J","l","e","H","A","i","O","j","J","9">>,
     \* {"a":1,"exp":2}
     <<"e","y","J","h","I","j","o","x","L","C","J","l","e","H","A","i","O","j","J","9">>,
     \* {"ab":1,"exp":2}
     <<"e","y","J","h","Y","i","I","6","M","S","w","i","Z","X","h","w","I","j","o","y","f","Q">>,
     \* {"abc":1,"exp":2}
     <<"e","y","J","h","Y","m","M","i","O","j","E","s","I","m","V","4","c","C","I","6","M","n","0">>,
     \* {"u":"ab?","exp":2}
     <<"e","y","J","1","I","j","o","i","Y","W","I","_","I","i","w","i","Z","X","h","w","I","j","o","y","f","Q">>,
     \* {"u":"ab?c","exp":12}
     <<"e","y","J","1","I","j","o","i","Y","W","I","_","Y","y","I","s","I","m","V","4","c","C","I","6","M","T","J","9">>,
     \* standard base64 of {"u":"ab?c","exp":12}
     <<"e","y","J","1","I","j","o","i","Y","W","I","/","Y","y","I","s","I","m","V","4","c","C","I","6","M","T","J","9">>,
     \* padded standard base64 of {"ab":1,"exp":2}
     <<"e","y","J","h","Y","i","I","6","M","S","w","i","Z","X","h","w","I","j","o","y","f","Q","=","=">>,
     \* {"exp":5}
     <<"e","y","J","l","e","H","A","i","O","j","V","9">>,
     \* {"a":1,"exp":5}
     <<"e","y","J","h","I","j","o","x","L","C","J","l","e","H","A","i","O","j","V","9">>,
     \* {"ab":1,"exp":5}
     <<"e","y","J","h","Y","i","I","6","M","S","w","i","Z","X","h","w","I","j","o","1","f","Q">>,
     \* {"abc":1,"exp":5}
     <<"e","y","J","h","Y","m","M","i","O","j","E","s","I","m","V","4","c","C","I","6","N","X","0">>,
     \* {"u":"ab?","exp":5}
     <<"e","y","J","1","I","j","o","i","Y","W","I","_","I","i","w","i","Z","X","h","w","I","j","o","1","f","Q">>,
     \* {"u":"ab?c","exp":15}
     <<"e","y","J","1","I","j","o","i","Y","W","I","_","Y","y","I","s","I","m","V","4","c","C","I","6","M","T","V","9">>,
     \* standard base64 of {"u":"ab?c","exp":15}
     <<"e","y","J","1","I","j","o","i","Y","W","I","/","Y","y","I","s","I","m","V","4","c","C","I","6","M","T","V","9">>,
     \* padded standard base64 of {"ab":1,"exp":5}
     <<"e","y","J","h","Y","i","I","6","M","S","w","i","Z","X","h","w","I","j","o","1","f","Q","=","=">>,
     \* {"exp":8}
     <<"e","y","J","l","e","H","A","i","O","j","h","9">>,
     \* {"a":1,"exp":8}
     <<"e","y","J","h","I","j","o","x","L","C","J","l","e","H","A","i","O","j","h","9">>,
     \* {"ab":1,"exp":8}
     <<"e","y","J","h","Y","i","I","6","M","S","w","i","Z","X","h","w","I","j","o","4","f","Q">>,
     \* {"abc":1,"exp":8}
     <<"e","y","J","h","Y","m","M","i","O","j","E","s","I","m","V","4","c","C","I","6","O","H","0">>,
     \* {"u":"ab?","exp":8}
     <<"e","y","J","1","I","j","o","i","Y","W","I","_","I","i","w","i","Z","X","h","w","I","j","o","4","f","Q">>,
     \* {"u":"ab?c","exp":18}
     <<"e","y","J","1","I","j","o","i","Y","W","I","_","Y","y","I","s","I","m","V","4","c","C","I","6","M","T","h","9">>,
     \* standard base64 of {"u":"ab?c","exp":18}
     <<"e","y","J","1","I","j","o","i","Y","W","I","/","Y","y","I","s","I","m","V","4","c","C","I","6","M","T","h","9">>,
     \* padded standard base64 of {"ab":1,"exp":8}
     <<"e","y","J","h","Y","i","I","6","M","S","w","i","Z","X","h","w","I","j","o","4","f","Q","=","=">>,
     \* {}
     <<"e","3","0">>,
     \* {"sub":"a"}
     <<"e","y","J","z","d","W","I","i","O","i","J","h","I","n","0">>,
     \* {"u":"ab?"}
     <<"e","y","J","1","I","j","o","i","Y","W","I","_","I","n","0">>,
     \* null
     <<"b","n","V","s","b","A">>,
     \* [1]
     <<"W","z","F","d">>,
     \* 7
     <<"N","w">>,
     \* "a"
     <<"I","m","E","i">>,
     \* {"exp":5
     <<"e","y","J","l","e","H","A","i","O","j","U">>,
     \* hello
     <<"a","G","V","s","b","G","8">>,
     \* not base64
     <<"a">>,
     \* not base64
     <<"a","b","!","d">>,
     \* not base64
     <<"e","y","J","*">>}
JWTTokens ==
    {JWTHeader \o <<".">> \o payload \o <<".">> \o JWTSignature : payload \in JWTPayloads}
    \cup {JWTHeader,
          JWTHeader \o <<".">> \o <<"e","y","J","l","e","H","A","i","O","j","V","9">>,
          JWTHeader \o <<".">> \o <<"e","y","J","l","e","H","A","i","O","j","V","9">> \o <<".">> \o JWTSignature
                    \o <<".">> \o JWTSignature}
JWTTimes == {1, 5, 9, 16}

InitJWT ==
    \E token \in JWTTokens, at \in JWTTimes : Harness([token |-> token, at |-> at])

CallVerifyJWT ==
    /\ pc = "call"
    /\ \E result \in {verifyJWT(arg.token, arg.at)} : Return(result)

SpecJWT == InitJWT /\ [][CallVerifyJWT]_vars

\* redactSecret applied alone to values of every length up to MaxSecretLen, whose
\* characters run through the base64 digits from one of three starting points, so
\* that neighbouring characters differ
MaxSecretLen == 40
RedactValues ==
    {[i \in 1..n |-> encodeStd[((i + shift) % 64) + 1]] :
        n \in 0..MaxSecretLen, shift \in {0, 21, 42}}

InitRedact == \E value \in RedactValues : Harness(value)

CallRedactSecret ==
    /\ pc = "call"
    /\ \E result \in {redactSecret(arg)} : Return(result)

SpecRedact == InitRedact /\ [][CallRedactSecret]_vars

\* The matcher applied alone to document trees: one request node under up to MaxDepth
\* nested folders, next to a node that is not an object.  Folders and request are
\* named Root or have the empty name; the request holds the same GitHub token in its
\* URL, in up to MaxHeaders headers, in its body and in its auth block, or lacks the
\* field.
MaxDepth == 2
MaxHeaders == 2
Root == <<"R","o","o","t">>
NodeNames == {Root, <<>>}
NameChains == UNION {[1..n -> NodeNames] : n \in 1..(MaxDepth + 1)}
Leaves == [url : BOOLEAN, headers : 0..MaxHeaders, body : BOOLEAN, auth : BOOLEAN]

\* The request object of a leaf, its fields in key order
LeafRequest(leaf) ==
    Obj((IF leaf.auth
         THEN <<Field(<<"auth">>, Obj(<<Field(<<"token">>, Str(TokA)),
                                        Field(<<"type">>, Str(<<"raw">>))>>))>>
         ELSE <<>>)
     \o (IF leaf.body
         THEN <<Field(<<"body">>, Obj(<<Field(<<"mode">>, Str(<<"raw">>)),
                                        Field(<<"raw">>, Str(TokA))>>))>>
         ELSE <<>>)
     \o (IF leaf.headers > 0
         THEN <<Field(<<"header">>, Arr([h \in 1..leaf.headers |-> Header(XToken, TokA)]))>>
         ELSE <<>>)
     \o (IF leaf.url THEN <<Field(<<"url">>, Str(URLWith(TokA)))>> ELSE <<>>))

\* The node named names[1] holding the nodes named by the rest of the chain, the last
\* of which is the request
RECURSIVE Nest(_, _)
Nest(names, request) ==
    IF Len(names) = 1
    THEN Obj(<<Field(<<"name">>, Str(names[1])), Field(<<"request">>, request)>>)
    ELSE Folder(names[1], <<Nest(Tail(names), request)>>)

TreeDoc(names, leaf) == Document(<<Str(Ping), Nest(names, LeafRequest(leaf))>>)

InitTree ==
    \E names \in NameChains : \E leaf \in Leaves :
        Harness([names |-> names, leaf |-> leaf, doc |-> TreeDoc(names, leaf)])

\* ScanCollection up to its deduplication
CallAllMatches ==
    /\ pc = "call"
    /\ \E result \in {AllMatches(arg.doc)} : Return(result)

SpecTree == InitTree /\ [][CallAllMatches]_vars

\* Validate and HasEmailConfigured applied alone to loaded configurations: every
\* combination of an unset, template (the values of the documented config.yaml) or
\* real SMTP host and sender, of zero, one or two recipients, and of no, one or two
\* monitor keywords
GmailHost == <<"smtp.gmail.com">>
TemplateFrom == <<"your-email@gmail.com">>
LoadedEmails ==
    {EmailConfig(host, from, to) :
        host \in {<<>>, GmailHost, <<"smtp.corp.example">>},
        from \in {<<>>, TemplateFrom, <<"bot@corp.example">>},
        to \in {<<>>, <<<<"sec@corp.example">>>>,
                <<<<"sec@corp.example">>, <<"ops@corp.example">>>>}}
LoadedConfigs ==
    [dryRun : {FALSE},
     DeepScan : {[Enabled |-> TRUE, VerifySecrets |-> TRUE]},
     Email : LoadedEmails,
     MonitorKeywords : {<<>>, <<KwAcme>>, MonitorKeywords},
     IgnoreKeywords : {IgnoreKeywords}]

InitConfig == \E loaded \in LoadedConfigs : Harness(loaded)

\* LoadConfig: cfg.Validate(); the monitor later asks cfg.HasEmailConfigured()
CallValidate ==
    /\ pc = "call"
    /\ \E result \in {[accepted |-> Validate(arg),
                       configured |-> HasEmailConfigured(arg)]} : Return(result)

SpecConfig == InitConfig /\ [][CallValidate]_vars

(***************************************************************************)
(* The Postman API client (postman package) on its own.  arg is the client *)
(* and the call in progress: rateLimiter counts the ticks waiting in the   *)
(* channel of its time.Ticker, which holds at most one.  res is the        *)
(* history of the client: "tick" for a tick received from the channel, and *)
(* the name of the operation for each request handed to httpClient.Do.     *)
(***************************************************************************)
MaxRequests == 3
TickerBuffer == 1

Client(ticks, op) == [rateLimiter |-> ticks, op |-> op]

\* The requests among the events of a history
RECURSIVE RequestsIn(_)
RequestsIn(history) ==
    IF history = <<>> THEN 0
    ELSE (IF Head(history) = "tick" THEN 0 ELSE 1) + RequestsIn(Tail(history))

\* NewClient: the ticker is started and has not fired yet
InitClient ==
    /\ now = 0
    /\ seenAlerts = <<>>
    /\ currentUserID = <<>>
    /\ config \in Configs
    /\ config.DeepScan.Enabled /\ config.DeepScan.VerifySecrets
    /\ ~config.dryRun /\ ~HasEmailConfigured(config)
    /\ pc = "ready"
    /\ ki = 1
    /\ collections = <<>>
    /\ ci = 1
    /\ allAlerts = <<>>
    /\ lastDoc = NoDoc
    /\ sent = 0
    /\ reports = 0
    /\ sweeps = 0
    /\ ret = "none"
    /\ arg = Client(0, "none")
    /\ res = <<>>

ClientStep(position, client, history) ==
    /\ pc' = position
    /\ arg' = client
    /\ res' = history
    /\ UNCHANGED <<now, seenAlerts, currentUserID, config, ki, collections, ci,
                   allAlerts, lastDoc, sent, reports, sweeps, ret>>

\* The ticker fires every 500 ms; a tick that finds the channel full is dropped
TickerFires ==
    /\ pc \in {"ready", "wait", "do"}
    /\ arg.rateLimiter < TickerBuffer
    /\ ClientStep(pc, [arg EXCEPT !.rateLimiter = @ + 1], res)

\* An operation of the client is entered: its first statement is the wait, or, where
\* it has none, the construction of the request
Enter(op, position) ==
    /\ pc = "ready"
    /\ RequestsIn(res) < MaxRequests
    /\ ClientStep(position, [arg EXCEPT !.op = op], res)

ClientGetCurrentUser == Enter("GetCurrentUser", "wait")

SearchPublicCollections == Enter("SearchPublicCollections", "wait")

SearchCollectionsByQuery == Enter("SearchCollectionsByQuery", "wait")

GetCollectionDetails == Enter("GetCollectionDetails", "wait")

GetCollectionAsMap == Enter("GetCollectionAsMap", "do")

\* <-c.rateLimiter.C: blocks until the channel holds a tick, and takes it
waitForRateLimit ==
    /\ pc = "wait"
    /\ arg.rateLimiter > 0
    /\ ClientStep("do", [arg EXCEPT !.rateLimiter = @ - 1], Append(res, "tick"))

\* c.httpClient.Do(req): the request goes out; whatever the answer, the operation
\* returns
Do ==
    /\ pc = "do"
    /\ ClientStep("ready", [arg EXCEPT !.op = "none"], Append(res, arg.op))

NextClient ==
    \/ TickerFires
    \/ ClientGetCurrentUser
    \/ SearchPublicCollections
    \/ SearchCollectionsByQuery
    \/ GetCollectionDetails
    \/ GetCollectionAsMap
    \/ waitForRateLimit
    \/ Do

SpecClient == InitClient /\ [][NextClient]_vars

(***************************************************************************)
(* Properties of the monitor                                               *)
(***************************************************************************)
\* The alert at the end of the batch
LastAlert == allAlerts[Len(allAlerts)]

\* C1 (suppression cooldown): when the collection loop evaluates a collection whose
\* key has an entry in the store, written when its alert was last emitted at T0, the
\* iteration at time T adds nothing to the batch and leaves the store alone if
\* T - T0 < 7 days, and if T - T0 >= 7 days it appends the alert for that keyword and
\* collection and sets the entry to T.
C1_SuppressionCooldown ==
    [][pc = "col" =>
          LET keyword == config.MonitorKeywords[ki]
              col == collections[ci]
              key == alertKey(keyword, col.ID)
          IN key \in DOMAIN seenAlerts =>
                IF now - seenAlerts[key] < 7
                THEN allAlerts' = allAlerts /\ seenAlerts' = seenAlerts
                ELSE /\ Len(allAlerts') = Len(allAlerts) + 1
                     /\ SubSeq(allAlerts', 1, Len(allAlerts)) = allAlerts
                     /\ allAlerts'[Len(allAlerts')].Keyword = keyword
                     /\ allAlerts'[Len(allAlerts')].Collection = col
                     /\ seenAlerts'[key] = now
      ]_vars

\* C1, its case: an alert was emitted again for a key whose entry was 7 or more days
\* old, and the entry now holds the time of this emission.
C1_Witness ==
    /\ lastDoc.decision = "alerted"
    /\ lastDoc.had
    /\ now - lastDoc.prev >= 7
    /\ seenAlerts[lastDoc.key] = now
    /\ LastAlert.Timestamp = now

\* C2 (the store is written only on emission): a step creates or changes the entry
\* of a key only if it appends an alert for that key to the batch; an iteration that
\* skips its collection (own, ignored, or inside the cooldown) leaves the whole store
\* unchanged.
C2_StoreWrittenOnlyOnEmit ==
    [][/\ \A k \in DOMAIN seenAlerts' :
            (k \notin DOMAIN seenAlerts \/ seenAlerts'[k] # seenAlerts[k]) =>
                /\ Len(allAlerts') = Len(allAlerts) + 1
                /\ alertKey(allAlerts'[Len(allAlerts')].Keyword,
                            allAlerts'[Len(allAlerts')].Collection.ID) = k
                /\ seenAlerts'[k] = now
       /\ (pc = "col" /\ (\/ IsOwn(collections[ci])
                          \/ shouldIgnore(collections[ci])
                          \/ RecentlyAlerted(alertKey(config.MonitorKeywords[ki],
                                                      collections[ci].ID))))
              => seenAlerts' = seenAlerts /\ allAlerts' = allAlerts
      ]_vars

\* C2, its case: a collection was evaluated and skipped (own, or ignored) while the
\* store held entries, and its own key still has none.
C2_Witness ==
    /\ lastDoc.decision \in {"ignored", "own"}
    /\ DOMAIN seenAlerts # {}
    /\ lastDoc.key \notin DOMAIN seenAlerts

\* C3 as stated (a failed fetch skips the alert): in an iteration whose fetch of the
\* collection's data fails, nothing is appended to the batch and the store is not
\* written.
C3_FetchFailureSkipsAlert ==
    [][(pc = "col" /\ lastDoc'.fetch = "failed") =>
          allAlerts' = allAlerts /\ seenAlerts' = seenAlerts
      ]_vars

\* C3, amended (a failed fetch still alerts): in an iteration whose fetch of the
\* collection's data fails, an alert for the collection with no secrets is appended
\* to the batch and the entry of its key is set to now; the run goes on (to the next
\* collection, the next keyword or the notification) and returns nothing because of
\* the failure.
C3_FetchFailureStillAlerts ==
    [][(pc = "col" /\ lastDoc'.fetch = "failed") =>
          LET keyword == config.MonitorKeywords[ki]
              col == collections[ci]
              key == alertKey(keyword, col.ID)
          IN /\ Len(allAlerts') = Len(allAlerts) + 1
             /\ SubSeq(allAlerts', 1, Len(allAlerts)) = allAlerts
             /\ allAlerts'[Len(allAlerts')].Keyword = keyword
             /\ allAlerts'[Len(allAlerts')].Collection = col
             /\ allAlerts'[Len(allAlerts')].Secrets = <<>>
             /\ key \in DOMAIN seenAlerts'
             /\ seenAlerts'[key] = now
             /\ pc' \in {"col", "search", "notify"}
             /\ ret' = "running"
      ]_vars

\* C3, its case: the fetch failed, the alert was appended without secrets, and the
\* loop stands at the next collection of the same search.
C3_Witness ==
    /\ pc = "col"
    /\ lastDoc.fetch = "failed"
    /\ lastDoc.decision = "alerted"
    /\ LastAlert.Secrets = <<>>
    /\ alertKey(LastAlert.Keyword, LastAlert.Collection.ID) = lastDoc.key
    /\ seenAlerts[lastDoc.key] = now

\* C4 (one sweep per run, on every path): whenever runCheck has returned, it has
\* called cleanupSeenAlerts exactly once, whichever way the notification went.
C4_SweepOncePerRun ==
    pc = "returned" => sweeps = 1

\* C5 (sweep threshold): after a run's sweep at time now, the store holds exactly the
\* entries it held before whose last-alerted-at is not more than 30 days before now,
\* each with its timestamp unchanged.
C5_SweepThreshold ==
    (pc = "returned" /\ sweeps = 1 /\ arg # None) =>
        /\ DOMAIN seenAlerts = {k \in DOMAIN arg.store : arg.now - arg.store[k] <= 30}
        /\ \A k \in DOMAIN seenAlerts : seenAlerts[k] = arg.store[k]

\* C5, its case: the sweep removed an entry 31 days old and retained, unchanged, one
\* 29 days old.
C5_Witness ==
    /\ pc = "returned"
    /\ sweeps = 1
    /\ arg # None
    /\ \E old, young \in DOMAIN arg.store :
          /\ arg.now - arg.store[old] = 31
          /\ old \notin DOMAIN seenAlerts
          /\ arg.now - arg.store[young] = 29
          /\ young \in DOMAIN seenAlerts
          /\ seenAlerts[young] = arg.store[young]

(***************************************************************************)
(* Properties of the scanner and of the duplicate detector                 *)
(***************************************************************************)
\* The (type, raw value) pairs matched anywhere in a document
PairsMatched(doc) ==
    {<<AllMatches(doc)[i].Type, AllMatches(doc)[i].RawValue>> :
        i \in 1..Len(AllMatches(doc))}

\* The location paths at which a (type, raw value) pair matched in a document
PathsMatched(doc, type, raw) ==
    {AllMatches(doc)[i].Location :
        i \in {j \in 1..Len(AllMatches(doc)) :
                  AllMatches(doc)[j].Type = type /\ AllMatches(doc)[j].RawValue = raw}}

\* C6 (one record per type and raw value): the result of ScanCollection has exactly
\* one record for every (type, raw value) pair matched in the document: no two
\* records share the pair, and every matched pair has its record.
C6_OneRecordPerTypeAndRawValue ==
    pc = "done" =>
        /\ \A i, j \in 1..Len(res) :
              (res[i].Type = res[j].Type /\ res[i].RawValue = res[j].RawValue) => i = j
        /\ {<<res[i].Type, res[i].RawValue>> : i \in 1..Len(res)} = PairsMatched(arg)

\* C7 (locations and occurrences): every record of the result carries all the paths
\* at which its (type, raw value) matched in the document, and is the only record
\* of that pair, so that its occurrences are the number of those paths.
C7_LocationsAggregated ==
    pc = "done" =>
        \A i \in 1..Len(res) :
            /\ {res[j].Location :
                   j \in {n \in 1..Len(res) : /\ res[n].Type = res[i].Type
                                              /\ res[n].RawValue = res[i].RawValue}}
                 = PathsMatched(arg, res[i].Type, res[i].RawValue)
            /\ Cardinality({n \in 1..Len(res) : /\ res[n].Type = res[i].Type
                                                /\ res[n].RawValue = res[i].RawValue}) = 1

\* The names of the documents whose alert holds a raw value
DocumentNamesOf(alerts, raw) ==
    {alerts[a].Collection.Name :
        a \in {n \in 1..Len(alerts) :
                  \E k \in 1..Len(alerts[n].Secrets) : alerts[n].Secrets[k].RawValue = raw}}

\* C8 (cross-document duplicates): DetectDuplicateSecrets has an entry for a raw
\* value exactly when the value is in the secrets of alerts of two or more distinct
\* document names, and the entry lists each of those names once.
C8_DuplicatesAcrossDocuments ==
    pc = "done" =>
        /\ DOMAIN res = {raw \in RawValuesOf(arg) :
                            Cardinality(DocumentNamesOf(arg, raw)) >= 2}
        /\ \A raw \in DOMAIN res :
              /\ {res[raw][i] : i \in 1..Len(res[raw])} = DocumentNamesOf(arg, raw)
              /\ Len(res[raw]) = Cardinality(DocumentNamesOf(arg, raw))

(***************************************************************************)
(* Properties of verification inside a run                                 *)
(***************************************************************************)
\* C9 (the verifier works on the raw value): every request issued while verifying the
\* secrets of the collection just alerted carries the raw value of its secret, and
\* the secret's raw value is the one the scan found.
C9_VerifierUsesRawValue ==
    (lastDoc.decision = "alerted" /\ lastDoc.fetch = "ok") =>
        /\ \A i \in DOMAIN lastDoc.probes :
              lastDoc.probes[i] # None =>
                  lastDoc.probes[i].credential = LastAlert.Secrets[i].RawValue
        /\ \A i \in 1..Len(LastAlert.Secrets) :
              LastAlert.Secrets[i].RawValue
                  = ScanOf[CHOOSE d \in DocsOf(LastAlert.Collection.ID) : TRUE][i].RawValue

\* C10 (end to end): the alert for the document with one GitHub token in one request
\* header, verified with the service answering 200, holds exactly one secret, and
\* that secret's verification result is valid.
C10_OneValidSecret ==
    (/\ lastDoc.decision = "alerted"
     /\ lastDoc.fetch = "ok"
     /\ config.DeepScan.VerifySecrets
     /\ DocToken \in DocsOf(LastAlert.Collection.ID)
     /\ \A i \in 1..Len(LastAlert.Secrets) :
           LastAlert.Secrets[i].Verification.StatusCode = 200) =>
        /\ Len(LastAlert.Secrets) = 1
        /\ LastAlert.Secrets[1].Verification.IsValid

\* C16 (a transport failure is inconclusive and not fatal): in the alert of a
\* collection whose secrets were verified, a secret whose probe failed at the
\* transport level carries a result with isValid = false and rateLimited = false;
\* every secret the scan found is in the alert, a probe was issued for each, and each
\* carries its result, whichever probes failed.
C16_TransportFailureInconclusive ==
    (/\ lastDoc.decision = "alerted"
     /\ lastDoc.fetch = "ok"
     /\ config.DeepScan.VerifySecrets) =>
        /\ alertKey(LastAlert.Keyword, LastAlert.Collection.ID) = lastDoc.key
        /\ Len(LastAlert.Secrets)
              = Len(ScanOf[CHOOSE d \in DocsOf(LastAlert.Collection.ID) : TRUE])
        /\ Len(lastDoc.probes) = Len(LastAlert.Secrets)
        /\ \A i \in 1..Len(LastAlert.Secrets) :
              /\ lastDoc.probes[i] # None
              /\ LastAlert.Secrets[i].Verification # None
              /\ LastAlert.Secrets[i].Verification.Message = "Request failed" =>
                    /\ LastAlert.Secrets[i].Verification.IsValid = FALSE
                    /\ LastAlert.Secrets[i].Verification.RateLimited = FALSE

\* C16, its case: the probe of the first secret failed at the transport level, the
\* second secret was verified all the same and is valid, and both are in the alert.
C16_Witness ==
    /\ lastDoc.decision = "alerted"
    /\ lastDoc.fetch = "ok"
    /\ Len(LastAlert.Secrets) = 2
    /\ LastAlert.Secrets[1].Verification # None
    /\ LastAlert.Secrets[1].Verification.Message = "Request failed"
    /\ LastAlert.Secrets[1].Verification.IsValid = FALSE
    /\ LastAlert.Secrets[2].Verification # None
    /\ LastAlert.Secrets[2].Verification.IsValid = TRUE

\* C17 (a result is set once, and absence means not attempted): while a run is under
\* way an alert of the batch never changes, so a secret's result, once in the batch,
\* is not overwritten; and every secret of every alert of the batch carries a result
\* if verification is enabled and none does if it is disabled.
C17_ResultSetOnce ==
    [][(pc = "search" \/ pc = "col" \/ pc = "notify") =>
          (/\ Len(allAlerts') >= Len(allAlerts)
           /\ SubSeq(allAlerts', 1, Len(allAlerts)) = allAlerts
           /\ \A a \in 1..Len(allAlerts') :
                 \A i \in 1..Len(allAlerts'[a].Secrets) :
                    (allAlerts'[a].Secrets[i].Verification # None)
                        <=> config.DeepScan.VerifySecrets)]_vars

\* C17, its case: a second alert has been appended to the batch after an alert whose
\* two secrets carry their results
C17_Witness ==
    /\ config.DeepScan.VerifySecrets
    /\ Len(allAlerts) = 2
    /\ Len(allAlerts[1].Secrets) = 2
    /\ \A i \in 1..2 : allAlerts[1].Secrets[i].Verification # None

VerifiedSubset ==
    {<<"GitHub Token">>, <<"GitHub OAuth">>, <<"Slack Token">>, <<"Google API Key">>,
     <<"Stripe Secret Key">>, <<"Stripe Restricted Key">>, <<"SendGrid API Key">>,
     <<"JWT Token">>}

\* C11 (unsupported types are not probed): for a secret of any type outside the
\* verified subset, VerifySecret returns isValid = false with the "not supported"
\* message and issues no request.
C11_UnsupportedTypeNotProbed ==
    (pc = "done" /\ arg.secret.Type \notin VerifiedSubset) =>
        /\ res.result.IsValid = FALSE
        /\ res.result.Message = "Verification not supported for this secret type"
        /\ res.request = None

\* The types whose probe is decided by the status code of the answer: token, cloud
\* API key, payments key, transactional mail key
StatusTypes ==
    {<<"GitHub Token">>, <<"GitHub OAuth">>, <<"Google API Key">>,
     <<"Stripe Secret Key">>, <<"Stripe Restricted Key">>, <<"SendGrid API Key">>}

\* C12 as stated (any 2xx is valid): for a status-code-interpreted type, an answer
\* with any status code in 200..299 yields isValid = true.
C12_Any2xxIsValid ==
    (/\ pc = "done"
     /\ arg.secret.Type \in StatusTypes
     /\ ~arg.resp.err
     /\ arg.resp.status \in 200..299) =>
        res.result.IsValid = TRUE

\* C12 (only 200 is valid): for a status-code-interpreted type, an answer with status
\* code 200 yields isValid = true, and an answer with any other status code of
\* 201..299 yields isValid = false with the unexpected-status message.
C12_Only200IsValid ==
    (/\ pc = "done"
     /\ arg.secret.Type \in StatusTypes
     /\ ~arg.resp.err
     /\ arg.resp.status \in 200..299) =>
        IF arg.resp.status = 200
        THEN res.result.IsValid = TRUE
        ELSE /\ res.result.IsValid = FALSE
             /\ res.result.Message = "Unexpected status"
             /\ res.result.StatusCode = arg.resp.status

\* A SendGrid key has been probed and the answer had status 200: the result is valid
C12_Witness ==
    /\ pc = "done"
    /\ arg.secret.Type = <<"SendGrid API Key">>
    /\ ~arg.resp.err
    /\ arg.resp.status = 200
    /\ res.result.IsValid = TRUE
    /\ res.request # None

\* C13 (token-style answers other than 2xx): for a GitHub token, 401 gives isValid =
\* false and rateLimited = false; 403 with a body containing "rate limit" gives
\* rateLimited = true and isValid = false; 403 with any other body gives isValid =
\* true with the insufficient-permissions message; every other status outside
\* 200..299 gives isValid = false with the unexpected-status message.
C13_TokenStyleStatuses ==
    (/\ pc = "done"
     /\ arg.secret.Type \in {<<"GitHub Token">>, <<"GitHub OAuth">>}
     /\ ~arg.resp.err
     /\ arg.resp.status \notin 200..299) =>
        CASE arg.resp.status = 401 ->
                res.result.IsValid = FALSE /\ res.result.RateLimited = FALSE
          [] arg.resp.status = 403 /\ Contains(arg.resp.body, RateLimitText) ->
                res.result.RateLimited = TRUE /\ res.result.IsValid = FALSE
          [] arg.resp.status = 403 /\ ~Contains(arg.resp.body, RateLimitText) ->
                /\ res.result.IsValid = TRUE
                /\ res.result.RateLimited = FALSE
                /\ res.result.Message = "VALID but insufficient permissions"
          [] OTHER ->
                /\ res.result.IsValid = FALSE
                /\ res.result.Message = "Unexpected status"

\* A GitHub token has been probed and the answer was a 403 without a mention of rate
\* limiting: the token is reported valid
C13_Witness ==
    /\ pc = "done"
    /\ arg.secret.Type = <<"GitHub Token">>
    /\ arg.resp = Response(403, <<"R","e","s","o","u","r","c","e"," ","n","o","t"," ",
                                  "a","c","c","e","s","s","i","b","l","e">>)
    /\ res.result.IsValid = TRUE
    /\ res.result.StatusCode = 403

\* An answer by which the service says it is throttling the caller: status 429, or
\* the 403 of GitHub whose body contains "rate limit"
RateLimitedAnswer(resp) ==
    /\ ~resp.err
    /\ \/ resp.status = 429
       \/ resp.status = 403 /\ Contains(resp.body, RateLimitText)

\* C15 (throttling is told apart from invalid): whenever a probe was issued, a
\* rate-limited answer gives rateLimited = true, rateLimited = true implies isValid =
\* false, and a 401 answer gives rateLimited = false.
C15_RateLimitedFlagged ==
    (pc = "done" /\ res.request # None) =>
        /\ RateLimitedAnswer(arg.resp) => res.result.RateLimited = TRUE
        /\ res.result.RateLimited = TRUE => res.result.IsValid = FALSE
        /\ (~arg.resp.err /\ arg.resp.status = 401) => res.result.RateLimited = FALSE

\* C14 (structured-claim tokens are judged by structure): verifyJWT issues no
\* request; a token that does not split on "." into exactly 3 segments is invalid; a
\* middle segment that decodes neither as base64url nor as standard base64 is
\* invalid; a middle segment that is well-formed base64url of something other than a
\* claim map is invalid; a middle segment that is well-formed base64url of a claim
\* map is invalid (expired) when its expiry is in the past, valid when it is in the
\* future, and valid when the map has no expiry.
C14_StructuralVerdict ==
    pc = "done" =>
        LET parts == Split(arg.token, ".")
            mid == parts[2]
            padded == mid \o Repeat("=", (4 - (Len(mid) % 4)) % 4)
            url == DecodeString(encodeURL, FALSE, mid)
            decodable == \/ url.ok
                         \/ DecodeString(encodeStd, TRUE, mid).ok
                         \/ DecodeString(encodeStd, TRUE, padded).ok
            parsed == Unmarshal(url.bytes)
            isMap == parsed.ok /\ url.bytes # <<"n","u","l","l">>
            expiry == ExpOf(parsed.claims)
        IN /\ res.request = None
           /\ IF Len(parts) # 3 THEN res.result.IsValid = FALSE
              ELSE IF ~decodable THEN res.result.IsValid = FALSE
              ELSE IF ~url.ok THEN TRUE
              ELSE IF ~isMap THEN res.result.IsValid = FALSE
              ELSE IF ~expiry.ok THEN res.result.IsValid = TRUE
              ELSE /\ expiry.exp < arg.at =>
                        /\ res.result.IsValid = FALSE
                        /\ res.result.Message = "EXPIRED - Token expired"
                   /\ expiry.exp > arg.at => res.result.IsValid = TRUE

\* The matches of a scan result as a set of (type, raw value, redacted value,
\* location)
MatchSet(matches) ==
    {<<matches[i].Type, matches[i].RawValue, matches[i].Value, matches[i].Location>> :
        i \in 1..Len(matches)}

C18_RedactionRule ==
    pc = "done" =>
        LET L == Len(arg)
            v == IF L < 12 THEN 2 ELSE 4
            masked == IF L - 2 * v < 20 THEN L - 2 * v ELSE 20
        IN IF L <= 8
           THEN res = <<"*", "*", "*", "*">>
           ELSE /\ Len(res) = 2 * v + masked
                /\ \A i \in 1..v : res[i] = arg[i]
                /\ \A i \in (v + 1)..(v + masked) : res[i] = "*"
                /\ \A i \in 1..v : res[v + masked + i] = arg[L - v + i]

\* C18, its case: a value of 40 characters has been redacted to 4 characters, 20
\* asterisks and 4 characters
C18_Witness ==
    /\ pc = "done"
    /\ Len(arg) = 40
    /\ Len(res) = 28
    /\ SubSeq(res, 1, 4) = SubSeq(arg, 1, 4)
    /\ SubSeq(res, 25, 28) = SubSeq(arg, 37, 40)
    /\ res[5] = "*" /\ res[24] = "*"

(***************************************************************************)
(* Properties of the Postman API client                                    *)
(***************************************************************************)
\* C21 (every request waits on the rate limiter): every request the client hands to
\* its HTTP client, whichever of the five operations makes it, comes right after a
\* tick received from the rate limiter, so that between any two consecutive requests
\* at least one tick has been consumed.
C21_RequestsRateLimited ==
    \A i \in 1..Len(res) :
        res[i] # "tick" => (i > 1 /\ res[i - 1] = "tick")

(***************************************************************************)
(* Properties of the filters of a run                                      *)
(***************************************************************************)
\* The collection is the user's own (the user's id being known), or its name or its
\* description holds one of the configured ignore keywords, whatever the case of the
\* letters
Excluded(col) ==
    \/ currentUserID # <<>> /\ col.Owner = currentUserID
    \/ \E i \in 1..Len(config.IgnoreKeywords) :
          \E text \in {col.Name, col.Description} :
              Contains(ToLower(text), ToLower(config.IgnoreKeywords[i]))

\* C22 (own and ignored collections): a collection owned by the current user (when
\* the user's id was obtained) or holding an ignore keyword in its name or description
\* is in no alert of any batch and in no entry of the suppression store, and the
\* iteration that meets it fetches nothing, probes nothing and changes neither batch
\* nor store; whatever GetCurrentUser answers the monitor goes on to its runs, and
\* without a user id a collection is not skipped for its owner.
C22_OwnAndIgnoredSkipped ==
    /\ [](\A a \in 1..Len(allAlerts) : ~Excluded(allAlerts[a].Collection))
    /\ [](\A col \in FilterUniverse : \A k \in 1..Len(config.MonitorKeywords) :
             Excluded(col) => alertKey(config.MonitorKeywords[k], col.ID) \notin DOMAIN seenAlerts)
    /\ [][(pc = "col" /\ Excluded(collections[ci])) =>
             /\ allAlerts' = allAlerts
             /\ seenAlerts' = seenAlerts
             /\ lastDoc'.fetch = "none"
             /\ lastDoc'.probes = <<>>]_vars
    /\ [][pc = "start" => pc' = "idle"]_vars
    /\ [][(pc = "col" /\ currentUserID = <<>> /\ lastDoc'.decision = "own") => FALSE]_vars

\* C22, its case: the user's id is known, the run has alerted on a collection of
\* somebody else, and its last iteration skipped a collection whose description holds
\* "demo" in capitals without fetching it
C22_Witness ==
    /\ currentUserID = Me
    /\ Len(allAlerts) > 0
    /\ lastDoc.decision = "ignored"
    /\ lastDoc.key = alertKey(KwAcme, ColDemo.ID)
    /\ lastDoc.fetch = "none"
    /\ \A k \in DOMAIN seenAlerts : k = alertKey(KwAcme, ColA.ID)

(***************************************************************************)
(* Properties of the end of a run                                          *)
(***************************************************************************)
\* C23 (dry run): with dry-run enabled SendAlert is never called, whatever the batch
\* holds and whether or not e-mail is configured, while the run still searches and
\* scans (a fetched document's secrets are in its alert) and, when it has alerts,
\* still detects duplicates, generates the findings reports, sweeps and returns no
\* error.
C23_DryRunSendsNothing ==
    config.dryRun =>
        /\ sent = 0
        /\ (pc = "returned" /\ Len(allAlerts) > 0) =>
               (reports = 1 /\ sweeps = 1 /\ ret = "nil")
        /\ (lastDoc.decision = "alerted" /\ lastDoc.fetch = "ok"
               /\ LastAlert.Collection = ColA) =>
               \E i \in 1..Len(LastAlert.Secrets) : LastAlert.Secrets[i].RawValue = TokA

\* C23, its case: a dry run with e-mail configured has returned with an alert that
\* carries a secret; the reports were generated and nothing was sent
C23_Witness ==
    /\ config.dryRun
    /\ HasEmailConfigured(config)
    /\ pc = "returned"
    /\ Len(allAlerts) > 0
    /\ Len(LastAlert.Secrets) > 0
    /\ reports = 1
    /\ sent = 0

(***************************************************************************)
(* Properties of the configuration                                         *)
(***************************************************************************)
\* C24 (delivery configured): HasEmailConfigured is true only if the SMTP host, the
\* sender and at least one recipient are set and neither host nor sender is the
\* template value of the documented configuration; in particular a configuration
\* that Validate accepts and for which HasEmailConfigured is true has a non-empty
\* sender and a non-empty recipient list.
C24_DeliveryConfigured ==
    (pc = "done" /\ res.configured) =>
        /\ arg.Email.SMTPHost # <<>>
        /\ arg.Email.From # <<>>
        /\ Len(arg.Email.To) > 0
        /\ arg.Email.SMTPHost # GmailHost
        /\ arg.Email.From # TemplateFrom
        /\ res.accepted => (arg.Email.From # <<>> /\ Len(arg.Email.To) > 0)

(***************************************************************************)
(* Properties of the matcher's traversal                                   *)
(***************************************************************************)
\* The matches of a result at one location
MatchesAt(matches, location) ==
    Cardinality({i \in 1..Len(matches) : matches[i].Location = location})

\* The names of a node's ancestors and of the node joined by " > ", then the field
\* (the separator before the field is written with it, as one label)
Breadcrumb(names, field) == Join(names, <<" > ">>) \o field

\* C25 (traversal): the matcher returns, and its matches are those of one scan of the
\* whole serialized document (every token of the document once, at the single
\* top-level location) and of one scan of each present field of the request node
\* under its folders: one match at "<names joined by ' > '> > URL" if it has a URL,
\* one per header at "... > Header", one at "... > Body", one at "... > Auth", and
\* none for a field it lacks or for the node that is not an object.
C25_TraversalOncePerField ==
    pc = "done" =>
        LET leaf == arg.leaf
            total == (IF leaf.url THEN 1 ELSE 0) + leaf.headers
                     + (IF leaf.body THEN 1 ELSE 0) + (IF leaf.auth THEN 1 ELSE 0)
        IN /\ Len(res) = 2 * total
           /\ MatchesAt(res, <<"Collection JSON">>) = total
           /\ MatchesAt(res, Breadcrumb(arg.names, <<" > URL">>)) = (IF leaf.url THEN 1 ELSE 0)
           /\ MatchesAt(res, Breadcrumb(arg.names, <<" > Header">>)) = leaf.headers
           /\ MatchesAt(res, Breadcrumb(arg.names, <<" > Body">>)) = (IF leaf.body THEN 1 ELSE 0)
           /\ MatchesAt(res, Breadcrumb(arg.names, <<" > Auth">>)) = (IF leaf.auth THEN 1 ELSE 0)
           /\ \A i \in 1..Len(res) : res[i].RawValue = TokA

(***************************************************************************)
(* Properties of the batch and of the suppression key                      *)
(***************************************************************************)
\* C26 (one alert per pair and run): the batch of a run never holds two alerts with
\* the same keyword and the same document id, also when the search returns the same
\* document more than once for that keyword.
C26_OneAlertPerPair ==
    \A a, b \in 1..Len(allAlerts) :
        (/\ allAlerts[a].Keyword = allAlerts[b].Keyword
         /\ allAlerts[a].Collection.ID = allAlerts[b].Collection.ID) => a = b

\* C26, its case: the batch holds the alert of a keyword and a document, and the
\* last iteration of the same run met that document again under that keyword and
\* skipped it on the entry just written
C26_Witness ==
    /\ Len(allAlerts) = 1
    /\ allAlerts[1].Keyword = KwAcme
    /\ allAlerts[1].Collection = ColA
    /\ lastDoc.decision = "suppressed"
    /\ lastDoc.key = alertKey(KwAcme, ColA.ID)
    /\ lastDoc.had
    /\ lastDoc.prev = allAlerts[1].Timestamp

\* C27 (recorded alerts are surfaced): a run that is not a dry run and has written
\* the suppression entries of its batch goes on to generate the findings reports for
\* that batch, and to attempt delivery when e-mail is configured, also when the
\* delivery fails; so no alert is in the store without having reached a report.
C27_RecordedAlertsSurfaced ==
    (pc = "returned" /\ ~config.dryRun /\ Len(allAlerts) > 0
        /\ \A a \in 1..Len(allAlerts) :
              alertKey(allAlerts[a].Keyword, allAlerts[a].Collection.ID) \in DOMAIN seenAlerts)
    => /\ reports = 1
       /\ HasEmailConfigured(config) => sent = 1

\* C28 (the suppression key is injective): two different (keyword, document id) pairs
\* never share an entry of the store, so in the first run of a monitor an iteration
\* is skipped for the cooldown only if the batch already holds an alert for that very
\* keyword and document id, also when keywords or ids contain ":".
C28_KeyInjective ==
    [][(pc = "col" /\ lastDoc'.decision = "suppressed") =>
          \E a \in 1..Len(allAlerts) :
              /\ allAlerts[a].Keyword = config.MonitorKeywords[ki]
              /\ allAlerts[a].Collection.ID = collections[ci].ID]_vars

(***************************************************************************)
(* Properties of the sweep and of the long-lived monitor                   *)
(***************************************************************************)
\* C29 (the sweep changes no suppression decision): the keys whose entry is younger
\* than the 7-day cooldown are the same right before and right after the sweep of a
\* run, each with its timestamp, whatever the store held and whatever the time.
C29_SweepKeepsDecisions ==
    (pc = "returned" /\ sweeps = 1 /\ arg # None) =>
        LET before == {k \in DOMAIN arg.store : arg.now - arg.store[k] < 7}
            after == {k \in DOMAIN seenAlerts : now - seenAlerts[k] < 7}
        IN /\ after = before
           /\ \A k \in after : seenAlerts[k] = arg.store[k]

\* C29, its case: the sweep has removed an entry older than 30 days and the store
\* still holds, unchanged, an entry 6 days old
C29_Witness ==
    /\ pc = "returned"
    /\ sweeps = 1
    /\ arg # None
    /\ \E old, young \in DOMAIN arg.store :
          /\ arg.now - arg.store[old] > 30
          /\ old \notin DOMAIN seenAlerts
          /\ arg.now - arg.store[young] = 6
          /\ young \in DOMAIN seenAlerts
          /\ seenAlerts[young] = arg.store[young]

\* The suppression key of the document that every search returns
PairKey == alertKey(KwAcme, ColA.ID)

====
